---- MODULE Spec2Model ----
(***************************************************************************)
(* The PTC mainnet daemon (src/ptc_mainnet_daemon.py): the SQLite ledger   *)
(* store (blocks, transactions, utxos), add_block, the miner loop, the     *)
(* send commands and submitblock of the RPC server.                        *)
(*                                                                         *)
(* Amounts are counted in halves of a thousandth of a PTC (2 = 0.001 PTC,  *)
(* the fee), so that a remainder below the fee can be more than nothing.   *)
(* sha256 is an ideal hash: its value is the record of the fields that     *)
(* were hashed, so two hashes are equal exactly when their inputs are.     *)
(* The number of leading hex zeros of a hash is a fixed function of its    *)
(* input (HexZeros).                                                       *)
(***************************************************************************)
EXTENDS Integers, Sequences, FiniteSets, TLC

(* ------------------------------ bounds -------------------------------- *)
\* no thread starts to build a block once the store holds MaxBlocks blocks
MaxBlocks == 3
\* the clock (time.time()) stops advancing at MaxTime
MaxTime == 1
\* the halving interval (210000 in the source, MainnetBlockchain.__init__)
\* scaled down so that a halving boundary lies inside the explored heights
halving_interval == 2
\* the blocks a caller offers to add_block directly: at most this many
MaxOffers == 1
\* start_mining and stop_mining are called at most MaxCalls times in all
MaxCalls == 3
\* a peer's chain holds at most MaxPeerHeight blocks
MaxPeerHeight == 4
\* at most MaxFaults calls fail (a network call, or a store call of mine_loop)
MaxFaults == 1
\* the retarget interval (2016 in the source, get_difficulty and
\* calculate_next_difficulty) scaled down so that a retarget boundary lies
\* inside the heights the chain of SpecChain reaches
RetargetInterval == 5
\* SpecChain mines until the store holds MaxChain blocks
MaxChain == 7
\* SpecRetarget follows at most MaxRetargets successive retargets
MaxRetargets == 2
\* SpecWallet adds at most MaxFunds blocks to the genesis store
MaxFunds == 3
\* a request carries at most MaxParams parameters
MaxParams == 3
\* SpecLedger adds blocks while the store holds at most MaxLedger blocks
MaxLedger == 2

(* ------------------------- program constants -------------------------- *)
initial_difficulty == 4000
block_reward == 100000
TxFee == 2
block_time_target == 600
\* the batch bound of PTCNetworkSync._sync_blocks_from_peer
SyncBatch == 10
\* _connect_to_network stops looking for peers at 3
MaxActive == 3
\* the amount the modelled send requests transfer (10 PTC)
SendAmount == 20000
\* a sha256 hex digest's leading zeros are modelled in 0 .. ZeroClasses-1
ZeroClasses == 5

\* LIMIT 50 of listtransactions
HistoryLimit == 50

NULL == 0
Zero64 == [zero |-> 64]

Threads == {"miner", "rpc", "client"}

VARIABLES
  db,             \* the committed SQLite database: blocks, transactions, utxos
  txn,            \* <<>> or <<t>>: the add_block transaction in flight (holder of db_lock)
  wallet,         \* wallet_addresses, ordered by created_at
  mining,         \* MainnetMiner.mining
  mining_address, \* MainnetMiner.mining_address ("" is None)
  th,             \* per thread: pc and the locals of mine_new_block / add_block
  req,            \* the RPC request being handled
  rpcResult,      \* the last RPC response
  observed,       \* <<>> or <<o>>: the last balance a concurrent reader got
  nextTx,         \* source of fresh txids (RealCrypto.generate_txid)
  now,            \* the clock
  offers,         \* number of blocks a direct caller has offered so far
  peers,          \* per peer node: the block count its getinfo reports
  faults,         \* number of calls that have failed so far
  gsync,          \* the sync thread of PTCGlobalNetwork and what its pass has done
  nsync,          \* the sync thread of PTCNetworkSync and what its pass has done
  ctl,            \* start_mining / stop_mining callers, mining_thread, live mine_loop threads
  cand,           \* what add_block last returned to mine_loop, and the store it left
  call            \* a function applied on its own: its inputs and what it returned

\* the daemon's own state
daemonVars == <<db, txn, wallet, mining, mining_address, th, req, rpcResult,
                observed, nextTx, now, offers, ctl, cand, call>>

\* the miner's control state and the record of its last candidate
minerVars == <<ctl, cand>>

\* the synchronisers and the peers they poll
syncVars == <<peers, faults, gsync, nsync>>

vars == <<db, txn, wallet, mining, mining_address, th, req, rpcResult,
          observed, nextTx, now, offers, peers, faults, gsync, nsync, ctl, cand,
          call>>

\* everything but call
stateVars == <<db, txn, wallet, mining, mining_address, th, req, rpcResult,
               observed, nextTx, now, offers, peers, faults, gsync, nsync, ctl,
               cand>>

(* ------------------------------ helpers ------------------------------- *)
Max(a, b) == IF a >= b THEN a ELSE b

Min(a, b) == IF a <= b THEN a ELSE b

RECURSIVE Pow2(_)
Pow2(n) == IF n = 0 THEN 1 ELSE 2 * Pow2(n - 1)

RECURSIVE SumAmounts(_)
\* sum of the amount fields of a sequence of records
SumAmounts(s) == IF s = <<>> THEN 0 ELSE Head(s).amount + SumAmounts(Tail(s))

RECURSIVE SumSet(_)
\* SUM(amount) over a set of utxo rows
SumSet(S) ==
  IF S = {} THEN 0
  ELSE LET u == CHOOSE x \in S : TRUE IN u.amount + SumSet(S \ {u})

SeqToSet(s) == {s[i] : i \in 1..Len(s)}

(* ------------------------------ hashing ------------------------------- *)
\* hashlib.sha256 of f"{height}{prev_hash}{merkle_root}{ts}" + f"{nonce}"
BlockHash(height, prev_hash, merkle_root, ts, nonce) ==
  [height |-> height, prev |-> prev_hash, merkle |-> merkle_root,
   ts |-> ts, nonce |-> nonce]

\* hashlib.sha256 of f"0{genesis_tx.txid}{ts}" + f"{nonce}"
GenesisHash(txid, ts, nonce) == [gtxid |-> txid, gts |-> ts, gnonce |-> nonce]

\* RealCrypto.sha256("".join(tx_hashes))
MerkleRoot(txs) == [merkle |-> [i \in 1..Len(txs) |-> txs[i].txid]]

\* a txid used as a string where a digest is expected (genesis merkle_root)
TxidString(txid) == [txid |-> txid]

\* leading hex zeros of a digest: a fixed function of the hashed input
HexZeros(h) ==
  IF DOMAIN h = {"height", "prev", "merkle", "ts", "nonce"}
    THEN (h.height + h.ts + h.nonce) % ZeroClasses
  ELSE IF DOMAIN h = {"gtxid", "gts", "gnonce"}
    THEN (h.gtxid + h.gts + h.gnonce) % ZeroClasses
  ELSE 0

\* target_zeros = max(2, difficulty // 1000)
TargetZeros(difficulty) == Max(2, difficulty \div 1000)

\* block_hash.startswith("0" * target_zeros)
MeetsTarget(h, difficulty) == HexZeros(h) >= TargetZeros(difficulty)

\* RealCrypto.mine_block: the first nonce, counting up from 0, whose digest
\* meets the target; data is the digest with its nonce still open
mine_block(data, difficulty) ==
  CHOOSE n \in 0..(ZeroClasses - 1) :
    /\ MeetsTarget([data EXCEPT !.nonce = n], difficulty)
    /\ \A m \in 0..(n - 1) : ~MeetsTarget([data EXCEPT !.nonce = m], difficulty)

CanMine(difficulty) == TargetZeros(difficulty) < ZeroClasses

mine_genesis(data, difficulty) ==
  CHOOSE n \in 0..(ZeroClasses - 1) :
    /\ MeetsTarget([data EXCEPT !.gnonce = n], difficulty)
    /\ \A m \in 0..(n - 1) : ~MeetsTarget([data EXCEPT !.gnonce = m], difficulty)

(* --------------------------- store queries ---------------------------- *)
\* SELECT COUNT(*) FROM blocks
get_height(d) == Cardinality(d.blocks)

TopBlock(d) == CHOOSE b \in d.blocks : \A c \in d.blocks : c.height <= b.height

\* SELECT hash FROM blocks ORDER BY height DESC LIMIT 1
get_best_block_hash(d) == IF d.blocks = {} THEN Zero64 ELSE TopBlock(d).hash

\* block_reward / 2 ** (height // halving_interval)
Reward(height) == block_reward \div Pow2(height \div halving_interval)

get_current_block_reward(d) == Reward(get_height(d))

\* calculate_next_difficulty from "time_taken = ..." on, for the difficulty of
\* the newest block and the elapsed time between the oldest and the newest
\* block of the window.  target_time / time_taken raises ZeroDivisionError
\* when the elapsed time is 0; a negative elapsed time gives a negative
\* factor, which max(0.25, ...) lifts to 0.25; int() truncates.
next_difficulty(cur, taken) ==
  LET target == RetargetInterval * block_time_target IN
  IF taken = 0 THEN [raised |-> TRUE, value |-> 0]
  ELSE [raised |-> FALSE,
        value  |-> IF taken < 0 \/ 4 * target <= taken THEN cur \div 4
                   ELSE IF target >= 4 * taken THEN 4 * cur
                   ELSE (cur * target) \div taken]

\* SELECT timestamp, difficulty FROM blocks ORDER BY height DESC LIMIT 2016
RetargetWindow(d) ==
  {b \in d.blocks :
     Cardinality({c \in d.blocks : c.height > b.height}) < RetargetInterval}

\* time_taken = blocks[0][0] - blocks[-1][0]
time_taken(d) ==
  LET window == RetargetWindow(d)
      oldest == CHOOSE b \in window : \A c \in window : b.height <= c.height
  IN  TopBlock(d).timestamp - oldest.timestamp

\* calculate_next_difficulty, as the record next_difficulty returns
calculate_next_difficulty(d) ==
  IF Cardinality(d.blocks) < RetargetInterval
    THEN [raised |-> FALSE, value |-> initial_difficulty]
  ELSE next_difficulty(TopBlock(d).difficulty, time_taken(d))

\* get_difficulty if it recomputed the difficulty at every height
EveryHeight(d) == get_height(d) > 0

\* the retarget branch of get_difficulty is taken
AtBoundary(d) ==
  LET height == get_height(d) IN height % RetargetInterval = 0 /\ height > 0

\* get_difficulty does not return: calculate_next_difficulty raises
get_difficulty_raises(d) == AtBoundary(d) /\ calculate_next_difficulty(d).raised

get_difficulty(d) ==
  IF AtBoundary(d) THEN calculate_next_difficulty(d).value
  ELSE IF d.blocks = {} THEN initial_difficulty
  ELSE TopBlock(d).difficulty

UnspentOf(d, address) ==
  {u \in d.utxos : u.address = address /\ u.spent_txid = NULL}

\* SELECT SUM(amount) FROM utxos WHERE address = ? AND spent_txid IS NULL
get_address_balance(d, address) == SumSet(UnspentOf(d, address))

\* ORDER BY amount DESC (equal amounts in insertion order)
Before(u, v) ==
  \/ u.amount > v.amount
  \/ u.amount = v.amount /\ u.txid < v.txid
  \/ u.amount = v.amount /\ u.txid = v.txid /\ u.output_index < v.output_index

RECURSIVE OrderDesc(_)
OrderDesc(S) ==
  IF S = {} THEN <<>>
  ELSE LET u == CHOOSE x \in S : \A y \in S \ {x} : Before(x, y)
       IN  <<u>> \o OrderDesc(S \ {u})

RECURSIVE TakeUntil(_, _, _)
\* the loop of get_spendable_utxos: append rows until total >= amount
TakeUntil(rows, total, amount) ==
  IF rows = <<>> THEN <<>>
  ELSE LET u == Head(rows)
           e == [txid |-> u.txid, output_index |-> u.output_index,
                 address |-> u.address, amount |-> u.amount]
       IN  IF total + u.amount >= amount THEN <<e>>
           ELSE <<e>> \o TakeUntil(Tail(rows), total + u.amount, amount)

\* get_spendable_utxos if its loop had no break
AllUnspent(d, address, amount) ==
  LET picked == TakeUntil(OrderDesc(UnspentOf(d, address)), 0,
                          amount + SumSet(UnspentOf(d, address)))
  IN  IF SumAmounts(picked) >= amount THEN picked ELSE <<>>

get_spendable_utxos(d, address, amount) ==
  LET picked == TakeUntil(OrderDesc(UnspentOf(d, address)), 0, amount)
  IN  IF SumAmounts(picked) >= amount THEN picked ELSE <<>>

\* create_transaction if it kept every change output
create_transaction_all_change(d, from, to, amount, txid) ==
  IF get_address_balance(d, from) < amount + TxFee THEN <<>>
  ELSE LET spendable == get_spendable_utxos(d, from, amount + TxFee)
           change == SumAmounts(spendable) - amount - TxFee
       IN  IF spendable = <<>> THEN <<>>
           ELSE <<[txid |-> txid, inputs |-> spendable,
                   outputs |-> <<[address |-> to, amount |-> amount],
                                 [address |-> from, amount |-> change]>>,
                   fee |-> TxFee]>>

\* create_transaction: <<>> is None
create_transaction(d, from, to, amount, txid) ==
  IF get_address_balance(d, from) < amount + TxFee THEN <<>>
  ELSE LET spendable == get_spendable_utxos(d, from, amount + TxFee)
           input_total == SumAmounts(spendable)
           change == input_total - amount - TxFee
           pay == <<[address |-> to, amount |-> amount]>>
       IN  IF spendable = <<>> THEN <<>>
           ELSE <<[txid |-> txid, inputs |-> spendable,
                   outputs |-> IF change < TxFee THEN pay
                               ELSE pay \o <<[address |-> from, amount |-> change]>>,
                   fee |-> TxFee]>>

\* the coinbase transaction of mine_loop / create_genesis_block
Coinbase(txid, address, amount) ==
  [txid |-> txid, inputs |-> <<>>,
   outputs |-> <<[address |-> address, amount |-> amount]>>, fee |-> 0]
(* ------------------------- add_block statements ----------------------- *)
EmptyDb == [blocks |-> {}, transactions |-> {}, utxos |-> {}]

TxRow(tx, height) ==
  [txid |-> tx.txid, block_height |-> height, inputs |-> tx.inputs,
   outputs |-> tx.outputs, fee |-> tx.fee]

UtxoRow(tx, k) ==
  [txid |-> tx.txid, output_index |-> k - 1, address |-> tx.outputs[k].address,
   amount |-> tx.outputs[k].amount, spent_txid |-> NULL]

\* the statements add_block executes for one transaction, in order
TxStmts(tx, ti) ==
  <<[op |-> "tx", ti |-> ti, k |-> 0]>>
  \o [k \in 1..Len(tx.inputs) |-> [op |-> "spend", ti |-> ti, k |-> k]]
  \o [k \in 1..Len(tx.outputs) |-> [op |-> "utxo", ti |-> ti, k |-> k]]

RECURSIVE TxsStmts(_, _)
TxsStmts(txs, ti) ==
  IF ti > Len(txs) THEN <<>>
  ELSE TxStmts(txs[ti], ti) \o TxsStmts(txs, ti + 1)

\* every statement of add_block, in execution order
AddBlockStmts(b) ==
  <<[op |-> "block", ti |-> 0, k |-> 0]>> \o TxsStmts(b.transactions, 1)

\* INSERT OR REPLACE in place of INSERT: the row of that height is replaced
InsertBlockReplacing(d, b) ==
  [ok |-> TRUE,
   db |-> [d EXCEPT !.blocks =
             {r \in d.blocks : r.height # b.height /\ r.hash # b.hash} \cup {b}]]

\* INSERT INTO blocks: height is the primary key, hash is UNIQUE
InsertBlock(d, b) ==
  IF \E r \in d.blocks : r.height = b.height \/ r.hash = b.hash
    THEN [ok |-> FALSE, db |-> d]
  ELSE [ok |-> TRUE, db |-> [d EXCEPT !.blocks = d.blocks \cup {b}]]

\* INSERT INTO transactions: txid is the primary key
InsertTx(d, tx, height) ==
  IF \E r \in d.transactions : r.txid = tx.txid
    THEN [ok |-> FALSE, db |-> d]
  ELSE [ok |-> TRUE,
        db |-> [d EXCEPT !.transactions = d.transactions \cup {TxRow(tx, height)}]]

\* the UPDATE matching no row: the input stays unspent
SpendNoRow(d, tx, k) == [ok |-> TRUE, db |-> d]

\* UPDATE utxos SET spent_txid = ? WHERE txid = ? AND output_index = ?
SpendUtxo(d, tx, k) ==
  [ok |-> TRUE,
   db |-> [d EXCEPT !.utxos =
             {IF u.txid = tx.inputs[k].txid /\ u.output_index = tx.inputs[k].output_index
                THEN [u EXCEPT !.spent_txid = tx.txid] ELSE u : u \in d.utxos}]]

\* INSERT INTO utxos: (txid, output_index) is the primary key
InsertUtxo(d, tx, k) ==
  IF \E u \in d.utxos : u.txid = tx.txid /\ u.output_index = k - 1
    THEN [ok |-> FALSE, db |-> d]
  ELSE [ok |-> TRUE, db |-> [d EXCEPT !.utxos = d.utxos \cup {UtxoRow(tx, k)}]]

\* one cursor.execute of add_block on the connection's working copy
ExecStmt(d, b, s) ==
  IF s.op = "block" THEN InsertBlock(d, b)
  ELSE IF s.op = "tx" THEN InsertTx(d, b.transactions[s.ti], b.height)
  ELSE IF s.op = "spend" THEN SpendUtxo(d, b.transactions[s.ti], s.k)
  ELSE InsertUtxo(d, b.transactions[s.ti], s.k)

\* the except branch committing what was written instead of rolling back
RollbackKeepsWork(base, work) == work

\* conn.rollback() in the except branch of add_block
Rollback(base, work) == base

\* a commit after every statement (as apply_transaction would give)
VisibleAfterEveryStmt(base, work) == work

\* rows written by a statement stay private to the connection until commit
VisibleBeforeCommit(base, work) == base

RECURSIVE RunStmts(_, _, _)
RunStmts(d, b, stmts) ==
  IF stmts = <<>> THEN [ok |-> TRUE, db |-> d]
  ELSE LET r == ExecStmt(d, b, Head(stmts))
       IN  IF r.ok THEN RunStmts(r.db, b, Tail(stmts)) ELSE [ok |-> FALSE, db |-> d]

\* add_block run without interleaving (used at construction, for genesis)
add_block(d, b) ==
  LET r == RunStmts(d, b, AddBlockStmts(b))
  IN  IF r.ok THEN r ELSE [ok |-> FALSE, db |-> Rollback(d, r.db)]

(* ------------------------------ genesis -------------------------------- *)
GenesisTx == Coinbase(1, "genesis_fund", 100000)

\* create_genesis_block, with every time.time() reading 0
GenesisBlock ==
  LET data == GenesisHash(GenesisTx.txid, 0, 0)
      nonce == mine_genesis(data, initial_difficulty)
  IN  [height |-> 0, prev_hash |-> Zero64,
       merkle_root |-> TxidString(GenesisTx.txid), timestamp |-> 0,
       difficulty |-> initial_difficulty, nonce |-> nonce,
       transactions |-> <<GenesisTx>>,
       hash |-> [data EXCEPT !.gnonce = nonce]]

(* ------------------------------ threads -------------------------------- *)
NoLocals(pc) ==
  [pc |-> pc, txs |-> <<>>, prev_hash |-> Zero64, height |-> 0,
   block |-> <<>>, ok |-> "none"]

NoReq == [method |-> "none", from |-> "", to |-> "", amount |-> 0]

NoResult == [kind |-> "none", txid |-> 0]

AddrNames == <<"w1", "w2", "w3">>

\* where a thread continues when add_block returns
After(t) == IF t = "miner" THEN "loop" ELSE IF t = "rpc" THEN "reply" ELSE "ready"

\* mine_loop as it would be if a rejected candidate were handed to add_block
\* again
ReturnedRetry(t, locals, ok) ==
  IF t = "miner" /\ ok = "false" THEN [locals EXCEPT !.ok = ok, !.pc = "add"]
  ELSE IF t = "miner" THEN [NoLocals(After(t)) EXCEPT !.ok = ok]
  ELSE [locals EXCEPT !.ok = ok, !.pc = After(t)]

\* the locals of thread t when its add_block has returned ok; the miner's
\* candidate goes out of scope with the iteration
Returned(t, locals, ok) ==
  IF t = "miner" THEN [NoLocals(After(t)) EXCEPT !.ok = ok]
  ELSE [locals EXCEPT !.ok = ok, !.pc = After(t)]

\* the peer nodes, in the order of peer_nodes / the seed list
PeerNames == <<"p1", "p2">>

PeerSet == SeqToSet(PeerNames)

\* what a pass has done so far: the first height the local store lacked when
\* it began, the peers asked for blocks, the heights fetched and the
\* submissions made, in order, and whether a call of the transfer failed
NoPass ==
  [missing |-> 0, asked |-> {}, fetched |-> <<>>, subs |-> <<>>, failed |-> FALSE]

\* PTCGlobalNetwork before its first pass: no active peer yet
GIdle ==
  [pc |-> "sleep", connecting |-> TRUE, active_peers |-> <<>>, local_height |-> 0, i |-> 1,
   best_peer |-> "", best_height |-> 0, blocks |-> <<>>, pass |-> NoPass]

\* PTCNetworkSync before its first pass
NIdle ==
  [pc |-> "sleep", local_height |-> 0, i |-> 1, peer |-> "", end_height |-> 0,
   height |-> 0, block |-> <<>>, pass |-> NoPass]

\* the threads that call start_mining / stop_mining
Callers == {"c1", "c2"}

\* MainnetMiner.__init__: no mining_thread (0 is None), no mine_loop thread
\* alive, no caller inside start_mining or stop_mining
CtlIdle ==
  [pc |-> [c \in Callers |-> "out"], mining_thread |-> 0, loops |-> {},
   spawned |-> 0, calls |-> 0, join |-> [c \in Callers |-> 0]]

\* no candidate has come back from add_block yet
NoCand == [txids |-> {}, ok |-> "none", count |-> 0, top |-> 0]

\* PTCMainnetDaemon.__init__: genesis block, default wallet address, idle miner
\* no function is being applied on its own
NoCall == [fn |-> "none"]

\* no thread has started, no request has arrived, no call is in flight
Idle ==
  /\ txn = <<>>
  /\ wallet = <<AddrNames[1]>>
  /\ mining = FALSE
  /\ mining_address = ""
  /\ th = [t \in Threads |-> NoLocals(IF t = "miner" THEN "idle" ELSE "ready")]
  /\ req = NoReq
  /\ rpcResult = NoResult
  /\ observed = <<>>
  /\ nextTx = 2
  /\ now = 0
  /\ offers = 0
  /\ peers = [p \in PeerSet |-> 1]
  /\ faults = 0
  /\ gsync = GIdle
  /\ nsync = NIdle
  /\ ctl = CtlIdle
  /\ cand = NoCand

\* the daemon's objects after construction
Constructed ==
  /\ db = add_block(EmptyDb, GenesisBlock).db
  /\ Idle

Init == Constructed /\ call = NoCall

(* ---------------------- mine_new_block / add_block --------------------- *)
\* prev_hash = self.get_best_block_hash()
ReadPrev(t) ==
  /\ th[t].pc = "prev"
  /\ th' = [th EXCEPT ![t].prev_hash = get_best_block_hash(db), ![t].pc = "height"]
  /\ UNCHANGED <<db, txn, wallet, mining, mining_address, req, rpcResult,
                 observed, nextTx, now, offers>>

\* height = self.get_height()
ReadHeight(t) ==
  /\ th[t].pc = "height"
  /\ th' = [th EXCEPT ![t].height = get_height(db), ![t].pc = "seal"]
  /\ UNCHANGED <<db, txn, wallet, mining, mining_address, req, rpcResult,
                 observed, nextTx, now, offers>>

\* the block mine_new_block returns: block_data carries the time t1 read
\* before the search, the block the time t2 read after it
MinedBlock(height, prev_hash, difficulty, txs, t1, t2) ==
  LET merkle_root == MerkleRoot(txs)
      data == BlockHash(height, prev_hash, merkle_root, t1, 0)
      nonce == mine_block(data, difficulty)
  IN  [height |-> height, prev_hash |-> prev_hash, merkle_root |-> merkle_root,
       timestamp |-> t2, difficulty |-> difficulty, nonce |-> nonce,
       transactions |-> txs, hash |-> [data EXCEPT !.nonce = nonce]]

\* difficulty = self.get_difficulty(), the proof-of-work search, Block(...)
Seal(t) ==
  /\ th[t].pc = "seal"
  /\ ~get_difficulty_raises(db)
  /\ CanMine(get_difficulty(db))
  /\ \E t2 \in {now, Min(now + 1, MaxTime)} :
       /\ now' = t2
       /\ th' = [th EXCEPT
                   ![t].block = <<MinedBlock(th[t].height, th[t].prev_hash,
                                             get_difficulty(db), th[t].txs, now, t2)>>,
                   ![t].pc = "add"]
  /\ UNCHANGED <<db, txn, wallet, mining, mining_address, req, rpcResult,
                 observed, nextTx, offers>>

\* add_block: with self.db_lock, sqlite3.connect
AddBegin(t) ==
  /\ th[t].pc = "add"
  /\ txn = <<>>
  /\ txn' = <<[owner |-> t, block |-> th[t].block[1],
               stmts |-> AddBlockStmts(th[t].block[1]), base |-> db, work |-> db]>>
  /\ th' = [th EXCEPT ![t].pc = "txn"]
  /\ UNCHANGED <<db, wallet, mining, mining_address, req, rpcResult,
                 observed, nextTx, now, offers>>

\* one cursor.execute of add_block; a constraint failure raises, the except
\* branch rolls back and add_block returns False
AddExec ==
  /\ txn # <<>>
  /\ txn[1].stmts # <<>>
  /\ LET x == txn[1]
         r == ExecStmt(x.work, x.block, Head(x.stmts))
     IN  IF r.ok
           THEN /\ txn' = <<[x EXCEPT !.work = r.db, !.stmts = Tail(x.stmts)]>>
                /\ db' = VisibleBeforeCommit(db, r.db)
                /\ th' = th
           ELSE /\ txn' = <<>>
                /\ db' = Rollback(db, x.work)
                /\ th' = [th EXCEPT ![x.owner] = Returned(x.owner, th[x.owner], "false")]
  /\ UNCHANGED <<wallet, mining, mining_address, req, rpcResult,
                 observed, nextTx, now, offers>>

\* conn.commit(); return True
AddCommit ==
  /\ txn # <<>>
  /\ txn[1].stmts = <<>>
  /\ db' = txn[1].work
  /\ txn' = <<>>
  /\ th' = [th EXCEPT ![txn[1].owner] = Returned(txn[1].owner, th[txn[1].owner], "true")]
  /\ UNCHANGED <<wallet, mining, mining_address, req, rpcResult,
                 observed, nextTx, now, offers>>

(* -------------------------------- miner -------------------------------- *)
\* start_mining (daemon start or the startmining command)
StartMining ==
  /\ ~mining
  /\ th["rpc"].pc = "ready"
  /\ IF mining_address = ""
       THEN /\ mining_address' = AddrNames[Len(wallet) + 1]
            /\ wallet' = Append(wallet, AddrNames[Len(wallet) + 1])
       ELSE UNCHANGED <<mining_address, wallet>>
  /\ mining' = TRUE
  /\ th' = [th EXCEPT !["miner"] = NoLocals("loop")]
  /\ UNCHANGED <<db, txn, req, rpcResult, observed, nextTx, now, offers>>

\* mine_loop: block_reward = get_current_block_reward(); coinbase_tx = ...
MinerCoinbase ==
  /\ th["miner"].pc = "loop"
  /\ mining
  /\ get_height(db) < MaxBlocks
  /\ th' = [th EXCEPT !["miner"] =
              [NoLocals("prev") EXCEPT
                 !.txs = <<Coinbase(nextTx, mining_address,
                                    get_current_block_reward(db))>>]]
  /\ nextTx' = nextTx + 1
  /\ UNCHANGED <<db, txn, wallet, mining, mining_address, req, rpcResult,
                 observed, now, offers>>
(* ----------------------------- RPC server ------------------------------ *)
\* requests are handled one at a time (HTTPServer): a new one starts at "ready"
RpcError == [kind |-> "error", txid |-> 0]

\* sendfrom: the handler's balance check
RpcSendFrom(from, to) ==
  /\ th["rpc"].pc = "ready"
  /\ get_height(db) < MaxBlocks
  /\ IF get_address_balance(db, from) >= SendAmount + TxFee
       THEN /\ req' = [method |-> "sendfrom", from |-> from, to |-> to,
                       amount |-> SendAmount]
            /\ th' = [th EXCEPT !["rpc"] = NoLocals("create")]
            /\ rpcResult' = NoResult
       ELSE /\ rpcResult' = RpcError
            /\ UNCHANGED <<req, th>>
  /\ UNCHANGED <<db, txn, wallet, mining, mining_address, observed, nextTx,
                 now, offers>>

\* sendtoaddress: the first wallet address with sufficient balance is used
RpcSendToAddress(to) ==
  /\ th["rpc"].pc = "ready"
  /\ get_height(db) < MaxBlocks
  /\ LET rich == {i \in 1..Len(wallet) :
                    get_address_balance(db, wallet[i]) >= SendAmount + TxFee}
     IN  IF rich # {}
           THEN /\ req' = [method |-> "sendtoaddress",
                           from |-> wallet[CHOOSE i \in rich : \A j \in rich : i <= j],
                           to |-> to, amount |-> SendAmount]
                /\ th' = [th EXCEPT !["rpc"] = NoLocals("create")]
                /\ rpcResult' = NoResult
           ELSE /\ rpcResult' = RpcError
                /\ UNCHANGED <<req, th>>
  /\ UNCHANGED <<db, txn, wallet, mining, mining_address, observed, nextTx,
                 now, offers>>

RECURSIVE SpendAll(_, _, _)
SpendAll(d, tx, k) ==
  IF k > Len(tx.inputs) THEN d ELSE SpendAll(SpendUtxo(d, tx, k).db, tx, k + 1)

RECURSIVE InsertAll(_, _, _)
InsertAll(d, tx, k) ==
  IF k > Len(tx.outputs) THEN [ok |-> TRUE, db |-> d]
  ELSE LET r == InsertUtxo(d, tx, k)
       IN  IF r.ok THEN InsertAll(r.db, tx, k + 1) ELSE r

\* apply_transaction: marks the inputs spent, inserts the outputs and
\* commits; a failing insert rolls back and raises
apply_transaction(d, tx) ==
  LET r == InsertAll(SpendAll(d, tx, 1), tx, 1)
  IN  IF r.ok THEN r ELSE [ok |-> FALSE, db |-> Rollback(d, r.db)]

\* the send handlers as they would be if they applied the new transaction to
\* the UTXO set with apply_transaction before mining its block
RpcCreateApplying ==
  /\ th["rpc"].pc = "create"
  /\ LET tx == create_transaction(db, req.from, req.to, req.amount, nextTx)
     IN  IF tx # <<>>
           THEN /\ th' = [th EXCEPT !["rpc"].txs = tx, !["rpc"].pc = "prev"]
                /\ nextTx' = nextTx + 1
                /\ db' = apply_transaction(db, tx[1]).db
                /\ UNCHANGED <<req, rpcResult>>
           ELSE /\ th' = [th EXCEPT !["rpc"] = NoLocals("ready")]
                /\ req' = NoReq
                /\ rpcResult' = RpcError
                /\ UNCHANGED <<nextTx, db>>
  /\ UNCHANGED <<txn, wallet, mining, mining_address, observed, now, offers>>

\* tx = self.blockchain.create_transaction(from_address, to_address, amount)
RpcCreate ==
  /\ th["rpc"].pc = "create"
  /\ LET tx == create_transaction(db, req.from, req.to, req.amount, nextTx)
     IN  IF tx # <<>>
           THEN /\ th' = [th EXCEPT !["rpc"].txs = tx, !["rpc"].pc = "prev"]
                /\ nextTx' = nextTx + 1
                /\ UNCHANGED <<req, rpcResult>>
           ELSE /\ th' = [th EXCEPT !["rpc"] = NoLocals("ready")]
                /\ req' = NoReq
                /\ rpcResult' = RpcError
                /\ UNCHANGED nextTx
  /\ UNCHANGED <<db, txn, wallet, mining, mining_address, observed, now, offers>>

\* if self.blockchain.add_block(new_block): return tx.txid  /  raise
RpcReply ==
  /\ th["rpc"].pc = "reply"
  /\ rpcResult' = IF th["rpc"].ok = "true"
                    THEN [kind |-> "txid", txid |-> th["rpc"].txs[1].txid]
                    ELSE RpcError
  /\ th' = [th EXCEPT !["rpc"] = NoLocals("ready")]
  /\ req' = NoReq
  /\ UNCHANGED <<db, txn, wallet, mining, mining_address, observed, nextTx,
                 now, offers>>

\* a block as _get_blocks_from_height of a peer serialises it
ToDict(b) ==
  [height |-> b.height, hash |-> b.hash, previous_hash |-> b.prev_hash,
   timestamp |-> b.timestamp, difficulty |-> b.difficulty, nonce |-> b.nonce,
   transactions |-> b.transactions]

\* the NOT NULL columns of table blocks (init_database)
BlocksNotNull ==
  {"height", "prev_hash", "merkle_root", "timestamp", "difficulty", "nonce",
   "hash", "block_data"}

\* the columns _submit_external_block supplies to INSERT OR REPLACE INTO blocks
SubmitColumns(bd) ==
  [height |-> bd.height, hash |-> bd.hash, prev_hash |-> bd.previous_hash,
   timestamp |-> bd.timestamp, difficulty |-> bd.difficulty, nonce |-> bd.nonce,
   block_data |-> bd.transactions]

\* INSERT OR REPLACE INTO blocks: a NOT NULL column without value or default
\* aborts the statement (IntegrityError); otherwise rows in conflict are replaced
InsertOrReplaceBlock(d, cols) ==
  IF ~(BlocksNotNull \subseteq DOMAIN cols) THEN [ok |-> FALSE, db |-> d]
  ELSE LET row == [height |-> cols.height, prev_hash |-> cols.prev_hash,
                   merkle_root |-> cols.merkle_root, timestamp |-> cols.timestamp,
                   difficulty |-> cols.difficulty, nonce |-> cols.nonce,
                   transactions |-> cols.block_data, hash |-> cols.hash]
       IN  InsertBlockReplacing(d, row)

\* _submit_external_block: the response kind and the database it leaves.
\* INSERT OR REPLACE INTO utxos supplies no created_at (NOT NULL): the first
\* output raises; an exception leaves the connection uncommitted.
submit_external_block(d, bd) ==
  IF get_height(d) >= bd.height THEN [kind |-> "exists", db |-> d]
  ELSE LET r == InsertOrReplaceBlock(d, SubmitColumns(bd))
       IN  IF ~r.ok THEN [kind |-> "dberror", db |-> d]
           ELSE IF \E i \in 1..Len(bd.transactions) :
                     Len(bd.transactions[i].outputs) > 0
             THEN [kind |-> "dberror", db |-> d]
           ELSE [kind |-> "success", db |-> r.db]

\* blocks a peer holds: its copy of a stored block, or a block it mined on
\* top of the local chain at the next height or beyond
PeerMined ==
  db.blocks
  \cup {MinedBlock(h, get_best_block_hash(db), initial_difficulty,
                   <<Coinbase(nextTx, "ext", Reward(h))>>, now, now) :
          h \in get_height(db)..(get_height(db) + 2)}

\* the blocks a peer serves, as getblocks returns them
PeerBlocks == {ToDict(b) : b \in PeerMined}

\* submitblock
RpcSubmitBlock(bd) ==
  /\ th["rpc"].pc = "ready"
  /\ LET r == submit_external_block(db, bd)
     IN  /\ db' = r.db
         /\ rpcResult' = [kind |-> r.kind, txid |-> 0]
  /\ UNCHANGED <<txn, wallet, mining, mining_address, th, req, observed,
                 nextTx, now, offers>>

(* -------------------- direct callers of the store API ------------------ *)
\* a transaction spending utxo u and paying amount back to its address
SpendTx(txid, u, amount) ==
  [txid |-> txid,
   inputs |-> <<[txid |-> u.txid, output_index |-> u.output_index,
                 address |-> u.address, amount |-> u.amount]>>,
   outputs |-> <<[address |-> u.address, amount |-> amount]>>, fee |-> TxFee]

\* transaction lists of offered blocks, for the height h they claim
OfferedTxs(d, h) ==
  LET cb == Coinbase(nextTx, "a", Reward(h)) IN
  {<<cb>>,
   <<cb, Coinbase(nextTx + 1, "a", Reward(h))>>,
   <<Coinbase(nextTx, "a", Reward(h) + 1)>>,
   <<cb, Coinbase(1, "a", Reward(h))>>}
  \cup {<<cb, SpendTx(nextTx + 1, u, u.amount - TxFee)>> : u \in d.utxos}
  \cup {<<SpendTx(nextTx, u, u.amount - TxFee)>> : u \in d.utxos}
  \cup {<<SpendTx(nextTx, u, u.amount + 1)>> : u \in d.utxos}
  \cup {<<SpendTx(nextTx, u, u.amount - TxFee),
          SpendTx(nextTx + 1, u, u.amount - TxFee)>> : u \in d.utxos}

\* the blocks a caller offers to add_block: a stored block again, or a mined
\* block at the top height, the next height or one beyond, on the best hash
\* or on the zero hash
Offers(d) ==
  d.blocks
  \cup {MinedBlock(get_height(d), prev, get_difficulty(d), txs, now, now) :
          prev \in {get_best_block_hash(d), Zero64},
          txs \in OfferedTxs(d, get_height(d))}
  \cup {MinedBlock(h, get_best_block_hash(d), get_difficulty(d),
                   <<Coinbase(nextTx, "a", Reward(h))>>, now, now) :
          h \in {get_height(d) - 1, get_height(d) + 1}}

\* a caller of MainnetBlockchain.add_block(block)
ClientOffer(b) ==
  /\ th["client"].pc = "ready"
  /\ offers < MaxOffers
  /\ offers' = offers + 1
  /\ nextTx' = nextTx + 2
  /\ th' = [th EXCEPT !["client"] = [NoLocals("add") EXCEPT !.block = <<b>>]]
  /\ UNCHANGED <<db, txn, wallet, mining, mining_address, req, rpcResult,
                 observed, now>>

\* an add_block is in flight whose connection has changed a's unspent rows
\* and has not committed yet
MidWrite(a) ==
  /\ txn # <<>>
  /\ UnspentOf(txn[1].work, a) # UnspentOf(txn[1].base, a)

\* get_address_balance called from another thread, on its own connection
Observe(a) ==
  /\ observed' = <<[address |-> a, value |-> get_address_balance(db, a),
                    mid |-> MidWrite(a)]>>
  /\ UNCHANGED <<db, txn, wallet, mining, mining_address, th, req, rpcResult,
                 nextTx, now, offers>>

(* --------------------------- specifications ---------------------------- *)
Runner == {"miner", "rpc"}

\* the daemon: the miner thread and the RPC server thread
\* the synchronisers and the miner's control threads take no step
OthersIdle == UNCHANGED <<syncVars, minerVars, call>>

Next ==
  \/ StartMining /\ OthersIdle
  \/ MinerCoinbase /\ OthersIdle
  \/ \E t \in Runner : ReadPrev(t) /\ OthersIdle
  \/ \E t \in Runner : ReadHeight(t) /\ OthersIdle
  \/ \E t \in Runner : Seal(t) /\ OthersIdle
  \/ \E t \in Runner : AddBegin(t) /\ OthersIdle
  \/ AddExec /\ OthersIdle
  \/ AddCommit /\ OthersIdle
  \/ \E from \in {"genesis_fund"} \cup SeqToSet(wallet), to \in {"ext", "w1"} :
       RpcSendFrom(from, to) /\ OthersIdle
  \/ \E to \in {"ext", "w1"} : RpcSendToAddress(to) /\ OthersIdle
  \/ RpcCreate /\ OthersIdle
  \/ RpcReply /\ OthersIdle
  \/ \E bd \in PeerBlocks : RpcSubmitBlock(bd) /\ OthersIdle

Spec == Init /\ [][Next]_vars

\* the store driven through its public methods: a caller of add_block, a
\* concurrent balance reader, and submitblock
NextApi ==
  \/ \E b \in Offers(db) : ClientOffer(b) /\ OthersIdle
  \/ AddBegin("client") /\ OthersIdle
  \/ AddExec /\ OthersIdle
  \/ AddCommit /\ OthersIdle
  \/ \E a \in {"a", "genesis_fund"} : Observe(a) /\ OthersIdle
  \/ \E bd \in PeerBlocks : RpcSubmitBlock(bd) /\ OthersIdle

SpecApi == Init /\ [][NextApi]_vars

(* ----------------------------- synchronisers --------------------------- *)
\* the txid of the coinbase of the peers' block at height h
PeerTxid(h) == 100 + h

RECURSIVE PeerChainBlock(_)
\* the chain the peer nodes share: the local genesis block and, on top of it,
\* the blocks a peer running this daemon has mined
PeerChainBlock(h) ==
  IF h = 0 THEN GenesisBlock
  ELSE MinedBlock(h, PeerChainBlock(h - 1).hash, initial_difficulty,
                  <<Coinbase(PeerTxid(h), "ext", Reward(h))>>, 0, 0)

\* the peers' chain up to the greatest height a peer reaches
PeerChain == [h \in 0..MaxPeerHeight |-> PeerChainBlock(h)]

\* a peer mines one more block
PeerGrows(p) ==
  /\ peers[p] < MaxPeerHeight
  /\ peers' = [peers EXCEPT ![p] = peers[p] + 1]
  /\ UNCHANGED <<faults, gsync, nsync>>
  /\ UNCHANGED daemonVars

\* _get_blocks_from_height of peer p: its blocks with height >= start_height,
\* ORDER BY height ASC
GetBlocksFrom(p, start_height) ==
  IF peers[p] <= start_height THEN <<>>
  ELSE [k \in 1..(peers[p] - start_height) |->
          ToDict(PeerChain[start_height + k - 1])]

\* the heights of a sequence of served blocks
HeightsOf(blocks) == [k \in 1..Len(blocks) |-> blocks[k].height]

\* a network call may fail (timeout, refused connection) while faults remain
CanFail == faults < MaxFaults

\* _connect_to_network: a seed that answers getinfo becomes an active peer
GConnect(p) ==
  /\ gsync.connecting
  /\ Len(gsync.active_peers) < MaxActive
  /\ p \notin SeqToSet(gsync.active_peers)
  /\ gsync' = [gsync EXCEPT !.active_peers = Append(gsync.active_peers, p)]
  /\ UNCHANGED <<peers, faults, nsync>>
  /\ UNCHANGED daemonVars

\* _connect_to_network leaves its loop once a round has found a peer
GConnectDone ==
  /\ gsync.connecting
  /\ gsync.active_peers # <<>>
  /\ gsync' = [gsync EXCEPT !.connecting = FALSE]
  /\ UNCHANGED <<peers, faults, nsync>>
  /\ UNCHANGED daemonVars

\* _sync_blockchain: a pass begins; local_height = self._get_local_height()
\* (0 when the local RPC call fails)
GPassStart ==
  /\ gsync.pc = "sleep"
  /\ gsync.active_peers # <<>>
  /\ \E fail \in {FALSE} \cup {f \in {TRUE} : CanFail} :
       LET h == IF fail THEN 0 ELSE get_height(db)
       IN  /\ gsync' = [gsync EXCEPT !.pc = "poll", !.local_height = h, !.i = 1,
                                     !.best_peer = "", !.best_height = h,
                                     !.blocks = <<>>,
                                     !.pass = [NoPass EXCEPT !.missing = get_height(db)]]
           /\ faults' = IF fail THEN faults + 1 ELSE faults
  /\ UNCHANGED <<peers, nsync>>
  /\ UNCHANGED daemonVars

\* for peer in self.active_peers: keep the peer with the highest block count
GPoll ==
  /\ gsync.pc = "poll"
  /\ gsync.i <= Len(gsync.active_peers)
  /\ \E fail \in {FALSE} \cup {f \in {TRUE} : CanFail} :
       LET p == gsync.active_peers[gsync.i]
           peer_height == IF fail THEN 0 ELSE peers[p]
       IN  /\ gsync' = IF peer_height > gsync.best_height
                         THEN [gsync EXCEPT !.best_height = peer_height,
                                            !.best_peer = p, !.i = gsync.i + 1]
                         ELSE [gsync EXCEPT !.i = gsync.i + 1]
           /\ faults' = IF fail THEN faults + 1 ELSE faults
  /\ UNCHANGED <<peers, nsync>>
  /\ UNCHANGED daemonVars

\* if best_peer and best_height > local_height: sync from it, else sleep
GDecide ==
  /\ gsync.pc = "poll"
  /\ gsync.i > Len(gsync.active_peers)
  /\ gsync' = [gsync EXCEPT !.pc =
                 IF gsync.best_peer # "" /\ gsync.best_height > gsync.local_height
                   THEN "fetch" ELSE "sleep"]
  /\ UNCHANGED <<peers, faults, nsync>>
  /\ UNCHANGED daemonVars

\* _sync_blocks_from_peer: getblocks [start_height + 1] from the best peer;
\* a failed call is logged and ends the pass
GFetch ==
  /\ gsync.pc = "fetch"
  /\ \E fail \in {FALSE} \cup {f \in {TRUE} : CanFail} :
       LET got == IF fail THEN <<>>
                  ELSE GetBlocksFrom(gsync.best_peer, gsync.local_height + 1)
       IN  /\ gsync' = [gsync EXCEPT
                          !.pc = IF got = <<>> THEN "sleep" ELSE "submit",
                          !.blocks = got,
                          !.pass.asked = gsync.pass.asked \cup {gsync.best_peer},
                          !.pass.fetched = HeightsOf(got),
                          !.pass.failed = fail]
           /\ faults' = IF fail THEN faults + 1 ELSE faults
  /\ UNCHANGED <<peers, nsync>>
  /\ UNCHANGED daemonVars

\* for block in blocks: submitblock to the local daemon; break on the first
\* failure (a reply without success, or a failed call)
GSubmit ==
  /\ gsync.pc = "submit"
  /\ gsync.blocks # <<>>
  /\ th["rpc"].pc = "ready"
  /\ \E fail \in {FALSE} \cup {f \in {TRUE} : CanFail} :
       LET bd == Head(gsync.blocks)
           r == IF fail THEN [kind |-> "dberror", db |-> db]
                ELSE submit_external_block(db, bd)
           more == r.kind = "success" /\ Tail(gsync.blocks) # <<>>
       IN  /\ db' = r.db
           /\ rpcResult' = IF fail THEN rpcResult ELSE [kind |-> r.kind, txid |-> 0]
           /\ gsync' = [gsync EXCEPT
                          !.pc = IF more THEN "submit" ELSE "sleep",
                          !.blocks = IF more THEN Tail(gsync.blocks) ELSE <<>>,
                          !.pass.subs = Append(gsync.pass.subs,
                                               [height |-> bd.height,
                                                ok |-> r.kind = "success"]),
                          !.pass.failed = gsync.pass.failed \/ fail]
           /\ faults' = IF fail THEN faults + 1 ELSE faults
  /\ UNCHANGED <<peers, nsync>>
  /\ UNCHANGED <<txn, wallet, mining, mining_address, th, req, observed,
                 nextTx, now, offers, ctl, cand, call>>

\* _sync_with_peers of PTCNetworkSync: a pass begins with the local height
NPassStart ==
  /\ nsync.pc = "sleep"
  /\ \E fail \in {FALSE} \cup {f \in {TRUE} : CanFail} :
       /\ nsync' = [NIdle EXCEPT !.pc = "poll",
                                 !.local_height = IF fail THEN 0 ELSE get_height(db),
                                 !.pass = [NoPass EXCEPT !.missing = get_height(db)]]
       /\ faults' = IF fail THEN faults + 1 ELSE faults
  /\ UNCHANGED <<peers, gsync>>
  /\ UNCHANGED daemonVars

\* `break  # Only sync from one peer at a time`: the peer loop is left
NAfterPeerAll(i) == i + 1

NAfterPeer(i) == Len(PeerNames) + 1

\* for peer in self.peer_nodes: the first peer that reports more blocks than
\* the local height is synced from
NPoll ==
  /\ nsync.pc = "poll"
  /\ nsync.i <= Len(PeerNames)
  /\ \E fail \in {FALSE} \cup {f \in {TRUE} : CanFail} :
       LET p == PeerNames[nsync.i]
           peer_height == IF fail THEN 0 ELSE peers[p]
       IN  /\ nsync' = IF peer_height > nsync.local_height
                         THEN [nsync EXCEPT !.pc = "getblock", !.peer = p,
                                            !.end_height = peer_height,
                                            !.height = nsync.local_height + 1]
                         ELSE [nsync EXCEPT !.i = nsync.i + 1]
           /\ faults' = IF fail THEN faults + 1 ELSE faults
  /\ UNCHANGED <<peers, gsync>>
  /\ UNCHANGED daemonVars

\* the peer loop has ended: sleep until the next pass
NPollDone ==
  /\ nsync.pc = "poll"
  /\ nsync.i > Len(PeerNames)
  /\ nsync' = [nsync EXCEPT !.pc = "sleep"]
  /\ UNCHANGED <<peers, faults, gsync>>
  /\ UNCHANGED daemonVars

\* range(start_height + 1, min(end_height + 1, start_height + 10))
NRangeEnd(start_height, end_height) ==
  Min(end_height + 1, start_height + SyncBatch)

\* the range of _sync_blocks_from_peer is exhausted
NBlocksDone ==
  /\ nsync.pc = "getblock"
  /\ nsync.height >= NRangeEnd(nsync.local_height, nsync.end_height)
  /\ nsync' = [nsync EXCEPT !.pc = "poll", !.i = NAfterPeer(nsync.i)]
  /\ UNCHANGED <<peers, faults, gsync>>
  /\ UNCHANGED daemonVars

\* what a peer answers to getblock [height]: no result (this daemon knows no
\* such method and answers with an error), or, from a peer that serves the
\* method, its block of that height
GetBlockAnswers(p, height) ==
  {<<>>} \cup {<<ToDict(PeerChain[height])>> : h \in {height} \cap 0..(peers[p] - 1)}

\* block_data = self._peer_rpc_call(peer, "getblock", [height]); a failed
\* call ends the range
NGetBlock ==
  /\ nsync.pc = "getblock"
  /\ nsync.height < NRangeEnd(nsync.local_height, nsync.end_height)
  /\ \/ /\ CanFail
        /\ faults' = faults + 1
        /\ nsync' = [nsync EXCEPT !.pc = "poll", !.i = NAfterPeer(nsync.i),
                                  !.pass.asked = nsync.pass.asked \cup {nsync.peer},
                                  !.pass.failed = TRUE]
     \/ /\ \E got \in GetBlockAnswers(nsync.peer, nsync.height) :
             nsync' = IF got = <<>>
                        THEN [nsync EXCEPT !.height = nsync.height + 1,
                                           !.pass.asked = nsync.pass.asked \cup {nsync.peer}]
                        ELSE [nsync EXCEPT !.pc = "nsubmit", !.block = got,
                                           !.pass.asked = nsync.pass.asked \cup {nsync.peer},
                                           !.pass.fetched =
                                             Append(nsync.pass.fetched, nsync.height)]
        /\ UNCHANGED faults
  /\ UNCHANGED <<peers, gsync>>
  /\ UNCHANGED daemonVars

\* _submit_block_locally: submitblock to the local daemon; the reply is
\* returned to a caller that ignores it, a failed call is swallowed
NSubmit ==
  /\ nsync.pc = "nsubmit"
  /\ th["rpc"].pc = "ready"
  /\ \E fail \in {FALSE} \cup {f \in {TRUE} : CanFail} :
       LET bd == nsync.block[1]
           r == IF fail THEN [kind |-> "dberror", db |-> db]
                ELSE submit_external_block(db, bd)
       IN  /\ db' = r.db
           /\ rpcResult' = IF fail THEN rpcResult ELSE [kind |-> r.kind, txid |-> 0]
           /\ nsync' = [nsync EXCEPT
                          !.pc = "getblock", !.block = <<>>,
                          !.height = nsync.height + 1,
                          !.pass.subs = Append(nsync.pass.subs,
                                               [height |-> bd.height,
                                                ok |-> r.kind = "success"]),
                          !.pass.failed = nsync.pass.failed \/ fail]
           /\ faults' = IF fail THEN faults + 1 ELSE faults
  /\ UNCHANGED <<peers, gsync>>
  /\ UNCHANGED <<txn, wallet, mining, mining_address, th, req, observed,
                 nextTx, now, offers, ctl, cand, call>>

\* a node runs one synchroniser: the daemon's PTCGlobalNetwork ...
GlobalStep ==
  /\ nsync = NIdle
  /\ \/ GPassStart
     \/ GPoll
     \/ GDecide
     \/ GFetch
     \/ GSubmit

\* ... or the stand-alone PTCNetworkSync
NetStep ==
  /\ gsync = GIdle
  /\ \/ NPassStart
     \/ NPoll
     \/ NPollDone
     \/ NBlocksDone
     \/ NGetBlock
     \/ NSubmit

\* a synchroniser against the local store, with peers that mine
NextSync ==
  \/ \E p \in PeerSet : PeerGrows(p)
  \/ nsync = NIdle /\ \E p \in PeerSet : GConnect(p)
  \/ nsync = NIdle /\ GConnectDone
  \/ nsync = NIdle /\ GPassStart
  \/ nsync = NIdle /\ GPoll
  \/ nsync = NIdle /\ GDecide
  \/ nsync = NIdle /\ GFetch
  \/ nsync = NIdle /\ GSubmit
  \/ gsync = GIdle /\ NPassStart
  \/ gsync = GIdle /\ NPoll
  \/ gsync = GIdle /\ NPollDone
  \/ gsync = GIdle /\ NBlocksDone
  \/ gsync = GIdle /\ NGetBlock
  \/ gsync = GIdle /\ NSubmit

SpecSync == Init /\ [][NextSync]_vars

\* the sync threads wake every 10 seconds: each keeps taking its steps
SpecSyncLive ==
  Init /\ [][NextSync]_vars /\ WF_vars(GlobalStep) /\ WF_vars(NetStep)

(* ------------------------------- claims -------------------------------- *)
(* ------------------------ the miner and its control -------------------- *)
\* stop_mining called on the main thread (the stopmining command, or
\* KeyboardInterrupt in start): self.mining = False, then mining_thread.join()
StopMining ==
  /\ th["rpc"].pc = "ready"
  /\ mining
  /\ mining' = FALSE
  /\ th' = [th EXCEPT !["rpc"].pc = "join"]
  /\ UNCHANGED <<db, txn, wallet, mining_address, req, rpcResult, observed,
                 nextTx, now, offers>>

\* mine_loop: while self.mining is false at the head of the loop, the thread ends
MinerExit ==
  /\ th["miner"].pc = "loop"
  /\ ~mining
  /\ th' = [th EXCEPT !["miner"] = NoLocals("idle")]
  /\ UNCHANGED <<db, txn, wallet, mining, mining_address, req, rpcResult,
                 observed, nextTx, now, offers>>

\* mining_thread.join() returns once the mine_loop thread has ended
StopJoin ==
  /\ th["rpc"].pc = "join"
  /\ th["miner"].pc = "idle"
  /\ th' = [th EXCEPT !["rpc"].pc = "ready"]
  /\ UNCHANGED <<db, txn, wallet, mining, mining_address, req, rpcResult,
                 observed, nextTx, now, offers>>

\* add_block returns to mine_loop in this step
MinerReturn == txn # <<>> /\ txn[1].owner = "miner" /\ txn' = <<>>

\* the record of the candidates add_block has returned to mine_loop: their
\* coinbase txids, the last answer, and the block count and top height of the
\* store at that return
CandStep ==
  cand' = IF MinerReturn
            THEN [txids |-> cand.txids \cup {txn[1].block.transactions[1].txid},
                  ok |-> th'["miner"].ok,
                  count |-> get_height(db'),
                  top |-> TopBlock(db').height]
            ELSE cand

\* the block another caller of add_block offers: the valid next block, built
\* as mine_new_block builds it from the store d
RivalOffers(d) ==
  IF get_difficulty_raises(d) \/ ~CanMine(get_difficulty(d)) THEN {}
  ELSE {MinedBlock(get_height(d), get_best_block_hash(d), get_difficulty(d),
                   <<Coinbase(nextTx, "a", get_current_block_reward(d))>>,
                   now, now)}

\* the miner thread, the main thread starting and stopping it, and another
\* caller of add_block competing for the next height
\* the frame of a step of NextMiner: the record of returned candidates is
\* kept, nothing else moves
MinerFrame == UNCHANGED <<syncVars, ctl, call>> /\ CandStep

NextMiner ==
  \/ StartMining /\ MinerFrame
  \/ MinerCoinbase /\ MinerFrame
  \/ ReadPrev("miner") /\ MinerFrame
  \/ ReadHeight("miner") /\ MinerFrame
  \/ Seal("miner") /\ MinerFrame
  \/ AddBegin("miner") /\ MinerFrame
  \/ \E b \in RivalOffers(db) : ClientOffer(b) /\ MinerFrame
  \/ AddBegin("client") /\ MinerFrame
  \/ AddExec /\ MinerFrame
  \/ AddCommit /\ MinerFrame
  \/ StopMining /\ MinerFrame
  \/ MinerExit /\ MinerFrame
  \/ StopJoin /\ MinerFrame

SpecMiner == Init /\ [][NextMiner]_vars

(* ------------------ start_mining / stop_mining callers ----------------- *)
\* what the calls and the mine_loop threads leave alone
CtlFrame ==
  UNCHANGED <<txn, th, req, rpcResult, observed, now, offers, cand, syncVars, call>>

\* start_mining: if self.mining: return
CallStart(c) ==
  /\ ctl.pc[c] = "out"
  /\ ctl.calls < MaxCalls
  /\ ctl' = [ctl EXCEPT !.calls = @ + 1,
                        !.pc[c] = IF mining THEN "out" ELSE "address"]
  /\ UNCHANGED <<db, wallet, mining, mining_address, nextTx>>
  /\ CtlFrame

\* if not self.mining_address: self.mining_address = create_wallet_address("mining")
CallAddress(c) ==
  /\ ctl.pc[c] = "address"
  /\ IF mining_address = ""
       THEN /\ mining_address' = AddrNames[Len(wallet) + 1]
            /\ wallet' = Append(wallet, AddrNames[Len(wallet) + 1])
       ELSE UNCHANGED <<mining_address, wallet>>
  /\ ctl' = [ctl EXCEPT !.pc[c] = "flag"]
  /\ UNCHANGED <<db, mining, nextTx>>
  /\ CtlFrame

\* self.mining = True
CallSetFlag(c) ==
  /\ ctl.pc[c] = "flag"
  /\ mining' = TRUE
  /\ ctl' = [ctl EXCEPT !.pc[c] = "spawn"]
  /\ UNCHANGED <<db, wallet, mining_address, nextTx>>
  /\ CtlFrame

\* self.mining_thread = threading.Thread(target=self.mine_loop); start()
CallSpawn(c) ==
  /\ ctl.pc[c] = "spawn"
  /\ ctl' = [ctl EXCEPT !.spawned = @ + 1,
                        !.loops = @ \cup {ctl.spawned + 1},
                        !.mining_thread = ctl.spawned + 1,
                        !.pc[c] = "out"]
  /\ UNCHANGED <<db, wallet, mining, mining_address, nextTx>>
  /\ CtlFrame

\* stop_mining: self.mining = False; if self.mining_thread: ... join()
CallStop(c) ==
  /\ ctl.pc[c] = "out"
  /\ ctl.calls < MaxCalls
  /\ mining' = FALSE
  /\ ctl' = [ctl EXCEPT !.calls = @ + 1,
                        !.pc[c] = IF ctl.mining_thread = 0 THEN "out" ELSE "join",
                        !.join[c] = ctl.mining_thread]
  /\ UNCHANGED <<db, wallet, mining_address, nextTx>>
  /\ CtlFrame

\* self.mining_thread.join() returns when that thread has ended
CallJoin(c) ==
  /\ ctl.pc[c] = "join"
  /\ ctl.join[c] \notin ctl.loops
  /\ ctl' = [ctl EXCEPT !.pc[c] = "out"]
  /\ UNCHANGED <<db, wallet, mining, mining_address, nextTx>>
  /\ CtlFrame

\* one iteration of mine_loop in thread k: the flag is set at the head of
\* the loop, a block is mined on the current top and given to add_block
LoopIter(k) ==
  /\ k \in ctl.loops
  /\ mining
  /\ get_height(db) < MaxBlocks
  /\ ~get_difficulty_raises(db)
  /\ CanMine(get_difficulty(db))
  /\ db' = add_block(db, MinedBlock(get_height(db), get_best_block_hash(db),
                                     get_difficulty(db),
                                     <<Coinbase(nextTx, mining_address,
                                                get_current_block_reward(db))>>,
                                     now, now)).db
  /\ nextTx' = nextTx + 1
  /\ UNCHANGED <<wallet, mining, mining_address, ctl>>
  /\ CtlFrame

\* thread k finds self.mining false at the head of the loop and ends
LoopExit(k) ==
  /\ k \in ctl.loops
  /\ ~mining
  /\ ctl' = [ctl EXCEPT !.loops = @ \ {k}]
  /\ UNCHANGED <<db, wallet, mining, mining_address, nextTx>>
  /\ CtlFrame

\* MainnetMiner driven by the threads of Callers
NextCtl ==
  \/ \E c \in Callers : CallStart(c)
  \/ \E c \in Callers : CallAddress(c)
  \/ \E c \in Callers : CallSetFlag(c)
  \/ \E c \in Callers : CallSpawn(c)
  \/ \E c \in Callers : CallStop(c)
  \/ \E c \in Callers : CallJoin(c)
  \/ \E k \in 1..MaxCalls : LoopIter(k)
  \/ \E k \in 1..MaxCalls : LoopExit(k)

SpecCtl == Init /\ [][NextCtl]_vars

(* ----------------------- failures inside mine_loop --------------------- *)
\* mine_loop as it would be if an exception ended the thread
RaisedEnds(locals) == NoLocals("idle")

\* except Exception: logger.error, time.sleep(30), then the head of the loop
Raised(locals) == NoLocals("loop")

\* a store call of an iteration raises (sqlite3.connect or execute fails in
\* get_current_block_reward, get_best_block_hash, get_height or
\* get_difficulty): the except branch of mine_loop takes over
MinerRaise ==
  /\ mining
  /\ th["miner"].pc \in {"loop", "prev", "height", "seal"}
  /\ CanFail
  /\ faults' = faults + 1
  /\ th' = [th EXCEPT !["miner"] = Raised(th["miner"])]
  /\ UNCHANGED <<db, txn, wallet, mining, mining_address, req, rpcResult,
                 observed, nextTx, now, offers, peers, gsync, nsync, ctl, call>>
  /\ CandStep

\* the miner, its control and a competing caller, with store calls that fail
NextMinerErr ==
  \/ NextMiner
  \/ MinerRaise

SpecMinerErr == Init /\ [][NextMinerErr]_vars

(* --------------------- the retarget computation ------------------------ *)
\* the difficulty of the newest block of the window
Difficulties == {1, 2, 3, 4, 5, 1000, initial_difficulty, initial_difficulty + 3}

\* the windows: RetargetInterval blocks whose timestamps are Spacing apart
\* (a clock that is set back gives a negative spacing)
Spacings ==
  {0 - block_time_target, 0, block_time_target \div 4,
   (RetargetInterval * block_time_target) \div (4 * (RetargetInterval - 1)),
   block_time_target,
   (RetargetInterval * block_time_target) \div (RetargetInterval - 1),
   (4 * RetargetInterval * block_time_target) \div (RetargetInterval - 1),
   8 * block_time_target}

\* blocks[0][0] - blocks[-1][0] for such a window: the newest and the oldest
\* of RetargetInterval rows are RetargetInterval - 1 spacings apart
WindowElapsed(spacing) == (RetargetInterval - 1) * spacing

RetargetCall(cur, spacing, n) ==
  [fn |-> "retarget", cur |-> cur, spacing |-> spacing, out |-> <<>>, n |-> n]

InitRetarget ==
  /\ Constructed
  /\ call \in {RetargetCall(cur, spacing, 1) :
                 cur \in Difficulties, spacing \in Spacings}

\* calculate_next_difficulty on a full window
Retarget ==
  /\ call.fn = "retarget"
  /\ call.out = <<>>
  /\ call' = [call EXCEPT
                !.out = <<next_difficulty(call.cur, WindowElapsed(call.spacing))>>]
  /\ UNCHANGED stateVars

\* the interval after a retarget: its blocks carry the returned difficulty
\* (get_difficulty between boundaries), the next window is spaced by s
NextInterval(s) ==
  /\ call.fn = "retarget"
  /\ call.out # <<>>
  /\ ~call.out[1].raised
  /\ call.n < MaxRetargets
  /\ call' = RetargetCall(call.out[1].value, s, call.n + 1)
  /\ UNCHANGED stateVars

NextRetarget ==
  \/ Retarget
  \/ \E s \in Spacings : NextInterval(s)

SpecRetarget == InitRetarget /\ [][NextRetarget]_vars

(* ------------------------ a chain mined locally ------------------------ *)
\* the time between two iterations of mine_loop: none, one target block
\* time, the spacing that makes a window take the target time, four target
\* block times
ChainSteps ==
  {0, block_time_target,
   (RetargetInterval * block_time_target) \div (RetargetInterval - 1),
   4 * block_time_target}

\* one iteration of mine_loop on a node nobody else writes to, dt after the
\* last one: mine_new_block with the coinbase, then add_block
ChainMine(dt) ==
  /\ get_height(db) < MaxChain
  /\ ~get_difficulty_raises(db)
  /\ CanMine(get_difficulty(db))
  /\ now' = now + dt
  /\ db' = add_block(db, MinedBlock(get_height(db), get_best_block_hash(db),
                                     get_difficulty(db),
                                     <<Coinbase(nextTx, AddrNames[1],
                                                get_current_block_reward(db))>>,
                                     now', now')).db
  /\ nextTx' = nextTx + 1
  /\ UNCHANGED <<txn, wallet, mining, mining_address, th, req, rpcResult,
                 observed, offers, syncVars, minerVars, call>>

\* an iteration in which get_difficulty raises: the except branch of
\* mine_loop, no block
ChainRaise(dt) ==
  /\ get_height(db) < MaxChain
  /\ get_difficulty_raises(db)
  /\ dt > 0
  /\ now < MaxChain * 4 * block_time_target
  /\ now' = now + dt
  /\ UNCHANGED <<db, txn, wallet, mining, mining_address, th, req, rpcResult,
                 observed, nextTx, offers, syncVars, minerVars, call>>

NextChain ==
  \/ \E dt \in ChainSteps : ChainMine(dt)
  \/ \E dt \in ChainSteps : ChainRaise(dt)

SpecChain == Init /\ [][NextChain]_vars

(* ------------- get_spendable_utxos and create_transaction -------------- *)
WalletAddrs == {AddrNames[1], AddrNames[2]}

\* the amounts of the outputs that fund the addresses
FundAmounts == {1, 3, 6}

\* the amount argument of get_spendable_utxos
Targets == {0, 1, 3, 4, 5, 7, 9}

\* the amount argument of create_transaction
BuildAmounts == {0 - TxFee, 0, 1, 2, 3, 5}

\* a block whose coinbase pays amount to address is mined and added
WalletFund(address, amount) ==
  /\ get_height(db) <= MaxFunds
  /\ db' = add_block(db, MinedBlock(get_height(db), get_best_block_hash(db),
                                     get_difficulty(db),
                                     <<Coinbase(nextTx, address, amount)>>,
                                     now, now)).db
  /\ nextTx' = nextTx + 1
  /\ call' = NoCall
  /\ UNCHANGED <<txn, wallet, mining, mining_address, th, req, rpcResult,
                 observed, now, offers, syncVars, minerVars>>

\* sendfrom on a node nobody else writes to: create_transaction,
\* mine_new_block([tx]), add_block
WalletSend(from, to, amount) ==
  /\ get_height(db) <= MaxFunds
  /\ amount > 0
  /\ get_address_balance(db, from) >= amount + TxFee
  /\ LET tx == create_transaction(db, from, to, amount, nextTx) IN
       /\ tx # <<>>
       /\ db' = add_block(db, MinedBlock(get_height(db), get_best_block_hash(db),
                                          get_difficulty(db), tx, now, now)).db
  /\ nextTx' = nextTx + 1
  /\ call' = NoCall
  /\ UNCHANGED <<txn, wallet, mining, mining_address, th, req, rpcResult,
                 observed, now, offers, syncVars, minerVars>>

\* get_spendable_utxos(address, target) on the store as it is
WalletSelect(address, target) ==
  /\ call = NoCall
  /\ call' = [fn |-> "select", address |-> address, target |-> target,
              out |-> get_spendable_utxos(db, address, target)]
  /\ UNCHANGED stateVars

\* create_transaction(from, to, amount) on the store as it is
WalletBuild(from, to, amount) ==
  /\ call = NoCall
  /\ call' = [fn |-> "build", from |-> from, to |-> to, amount |-> amount,
              out |-> create_transaction(db, from, to, amount, nextTx)]
  /\ UNCHANGED stateVars

NextWallet ==
  \/ \E a \in WalletAddrs, x \in FundAmounts : WalletFund(a, x)
  \/ \E a \in WalletAddrs, b \in WalletAddrs, x \in BuildAmounts :
       WalletSend(a, b, x)
  \/ \E a \in WalletAddrs, x \in Targets : WalletSelect(a, x)
  \/ \E a \in WalletAddrs, b \in WalletAddrs, x \in BuildAmounts :
       WalletBuild(a, b, x)

SpecWallet == Init /\ [][NextWallet]_vars

(* ---------------------- requests that fall short ----------------------- *)
\* the method names handle_request compares with
Methods ==
  {"getinfo", "getbalance", "getaddressbalance", "getnewaddress",
   "listaddresses", "sendtoaddress", "sendfrom", "listtransactions",
   "getaddresstransactions", "startmining", "stopmining", "setminingaddress",
   "getminingaddress", "getblockchain", "getblocks", "submitblock"}

\* a method name handle_request does not know
Requested == Methods \cup {"getblock"}

\* the parameters a method cannot do without: the address of a balance or a
\* history, destination and amount of a send (and its source for sendfrom),
\* the mining address, the start height of getblocks, the block of submitblock
Required(method) ==
  CASE method \in {"getaddressbalance", "getaddresstransactions",
                   "setminingaddress", "getblocks", "submitblock"} -> 1
    [] method = "sendtoaddress" -> 2
    [] method = "sendfrom" -> 3
    [] OTHER -> 0

RpcFailure(message) == [kind |-> "error", code |-> 0 - 1, message |-> message]

\* _get_blocks_from_height
get_blocks_from_height(d, start_height) ==
  [kind |-> "result",
   blocks |-> {ToDict(b) : b \in {c \in d.blocks : c.height >= start_height}}]

\* handle_request, and the except clause of do_POST, for a request with n
\* parameters whose method is unknown or which has fewer parameters than
\* its method requires
handle_short_request(d, method, n) ==
  CASE method \notin Methods -> RpcFailure("Unknown method")
    [] method = "getaddressbalance" -> RpcFailure("Address required")
    [] method = "sendtoaddress" -> RpcFailure("Invalid parameters")
    [] method = "sendfrom" -> RpcFailure("Invalid parameters")
    [] method = "getaddresstransactions" -> RpcFailure("Address required")
    [] method = "setminingaddress" -> RpcFailure("Missing address parameter")
    [] method = "submitblock" -> RpcFailure("No block data provided")
    [] method = "getblocks" -> get_blocks_from_height(d, 0)

\* a request arrives whose method is unknown or which lacks a parameter
RpcShort(method, n) ==
  /\ method \notin Methods \/ n < Required(method)
  /\ call' = [fn |-> "handle_request", method |-> method, n |-> n,
              out |-> handle_short_request(db, method, n)]
  /\ UNCHANGED stateVars

NextRpc ==
  \/ \E a \in WalletAddrs, x \in FundAmounts : WalletFund(a, x)
  \/ \E m \in Requested, n \in 0..MaxParams : RpcShort(m, n)

SpecRpc == Init /\ [][NextRpc]_vars

(* ------------------------------ history -------------------------------- *)
\* the addresses among the inputs / the outputs of a stored transaction
InputAddrs(tx) == {tx.inputs[i].address : i \in 1..Len(tx.inputs)}

OutputAddrs(tx) == {tx.outputs[i].address : i \in 1..Len(tx.outputs)}

\* SELECT ... FROM transactions WHERE txid IN (SELECT DISTINCT txid FROM utxos
\* WHERE address IN (...)): the txid of a utxos row is that of the
\* transaction that created the output
Matched(d, addresses) ==
  {tx \in d.transactions :
     \E u \in d.utxos : u.txid = tx.txid /\ u.address \in addresses}

\* ORDER BY timestamp DESC LIMIT 50 (a transaction is built right before
\* its block: later blocks hold later transactions)
Latest(rows) ==
  {tx \in rows :
     Cardinality({o \in rows :
                    \/ o.block_height > tx.block_height
                    \/ o.block_height = tx.block_height /\ o.txid > tx.txid})
       < HistoryLimit}

\* the category listtransactions gives a row
Category(tx, addresses) ==
  LET is_send    == InputAddrs(tx) \cap addresses # {}
      is_receive == OutputAddrs(tx) \cap addresses # {}
  IN  IF is_send /\ ~is_receive THEN "send"
      ELSE IF is_receive /\ ~is_send THEN "receive"
      ELSE "self"

\* handle_request, method listtransactions
listtransactions(d, addresses) ==
  IF addresses = {} THEN [kind |-> "result", rows |-> {}]
  ELSE [kind |-> "result",
        rows |-> {[txid |-> tx.txid, category |-> Category(tx, addresses)] :
                    tx \in Latest(Matched(d, addresses))}]

RpcListTransactions ==
  /\ call = NoCall
  /\ call' = [fn |-> "history", addresses |-> SeqToSet(wallet),
              out |-> listtransactions(db, SeqToSet(wallet))]
  /\ UNCHANGED stateVars

\* handle_request, method getaddresstransactions: MainnetBlockchain has no
\* attribute get_transactions_for_addresses, the call raises AttributeError
RpcAddressTransactions(address) ==
  /\ call = NoCall
  /\ call' = [fn |-> "history", addresses |-> {address},
              out |-> RpcFailure("AttributeError")]
  /\ UNCHANGED stateVars

NextHistory ==
  \/ \E a \in WalletAddrs, x \in FundAmounts : WalletFund(a, x)
  \/ \E a \in WalletAddrs, b \in WalletAddrs, x \in BuildAmounts :
       WalletSend(a, b, x)
  \/ RpcListTransactions
  \/ \E a \in WalletAddrs : RpcAddressTransactions(a)

SpecHistory == Init /\ [][NextHistory]_vars

(* ------------------------- genesis and restart ------------------------- *)
\* the block create_genesis_block builds for a generated txid at time ts
genesis_block(txid, ts) ==
  LET tx    == Coinbase(txid, "genesis_fund", GenesisTx.outputs[1].amount)
      data  == GenesisHash(txid, ts, 0)
      nonce == mine_genesis(data, initial_difficulty)
  IN  [height |-> 0, prev_hash |-> Zero64, merkle_root |-> TxidString(txid),
       timestamp |-> ts, difficulty |-> initial_difficulty, nonce |-> nonce,
       transactions |-> <<tx>>, hash |-> [data EXCEPT !.gnonce = nonce]]

\* a data directory without mainnet.db: init_database has created the tables
InitEmpty ==
  /\ db = EmptyDb
  /\ Idle
  /\ call = NoCall

GenesisFrame ==
  UNCHANGED <<txn, wallet, mining, mining_address, th, req, rpcResult,
              observed, now, syncVars, minerVars>>

\* MainnetBlockchain.__init__ on the store as it is (a start or a restart):
\* if self.get_height() == 0: self.create_genesis_block()
Construct ==
  /\ IF get_height(db) = 0
       THEN /\ db' = add_block(db, genesis_block(nextTx, now)).db
            /\ nextTx' = nextTx + 1
       ELSE UNCHANGED <<db, nextTx>>
  /\ call' = [fn |-> "init", before |-> db, ok |-> TRUE]
  /\ UNCHANGED offers
  /\ GenesisFrame

\* create_genesis_block called on the store as it is
CreateGenesis ==
  /\ offers < MaxOffers
  /\ offers' = offers + 1
  /\ LET r == add_block(db, genesis_block(nextTx, now))
     IN  /\ db' = r.db
         /\ call' = [fn |-> "create_genesis_block", before |-> db, ok |-> r.ok]
  /\ nextTx' = nextTx + 1
  /\ GenesisFrame

\* add_block called once more with the stored block of height 0
ApplyGenesisAgain ==
  /\ \E b \in db.blocks :
       /\ b.height = 0
       /\ LET r == add_block(db, b)
          IN  /\ db' = r.db
              /\ call' = [fn |-> "add_block", before |-> db, ok |-> r.ok]
  /\ UNCHANGED <<nextTx, offers>>
  /\ GenesisFrame

\* the node is up: blocks are mined on top of the genesis block
GenesisFund(a, x) == db.blocks # {} /\ WalletFund(a, x)

NextGenesis ==
  \/ Construct
  \/ CreateGenesis
  \/ ApplyGenesisAgain
  \/ \E a \in WalletAddrs, x \in FundAmounts : GenesisFund(a, x)

SpecGenesis == InitEmpty /\ [][NextGenesis]_vars

(* ------------------ send requests beside the miner thread -------------- *)
\* the amounts the send requests of SpecSend carry: one that no balance
\* check refuses (amount + fee = 0), and one that leaves change
SendAmounts == {0 - TxFee, SendAmount}

\* sendfrom with the amount the request carries: the handler's balance check
RpcSendAmount(from, to, amount) ==
  /\ th["rpc"].pc = "ready"
  /\ get_height(db) < MaxBlocks
  /\ IF get_address_balance(db, from) >= amount + TxFee
       THEN /\ req' = [method |-> "sendfrom", from |-> from, to |-> to,
                       amount |-> amount]
            /\ th' = [th EXCEPT !["rpc"] = NoLocals("create")]
            /\ rpcResult' = NoResult
       ELSE /\ rpcResult' = RpcError
            /\ UNCHANGED <<req, th>>
  /\ UNCHANGED <<db, txn, wallet, mining, mining_address, observed, nextTx,
                 now, offers>>

\* the RPC thread serving send requests of any amount, while the miner hands
\* add_block the candidate it has mined for the next height (RivalOffers)
NextSend ==
  \/ \E b \in RivalOffers(db) : ClientOffer(b) /\ OthersIdle
  \/ ReadPrev("rpc") /\ OthersIdle
  \/ ReadHeight("rpc") /\ OthersIdle
  \/ Seal("rpc") /\ OthersIdle
  \/ \E t \in {"rpc", "client"} : AddBegin(t) /\ OthersIdle
  \/ AddExec /\ OthersIdle
  \/ AddCommit /\ OthersIdle
  \/ \E from \in {"genesis_fund", "w1"}, x \in SendAmounts :
       RpcSendAmount(from, "w1", x) /\ OthersIdle
  \/ RpcCreate /\ OthersIdle
  \/ RpcReply /\ OthersIdle

SpecSend == Init /\ [][NextSend]_vars

(* --------------------- the ledger, one call at a time ------------------ *)
\* the amount parameter of a send request: float(params[..]) is not checked
\* for its sign
LedgerAmounts == {0 - 1, 0, 1, block_reward - TxFee - 1, block_reward - TxFee}

LedgerAddrs == {"genesis_fund", AddrNames[1]}

\* one iteration of mine_loop paying address, run with no other writer
LedgerMine(address) ==
  /\ get_height(db) <= MaxLedger
  /\ LET b == MinedBlock(get_height(db), get_best_block_hash(db),
                         get_difficulty(db),
                         <<Coinbase(nextTx, address, get_current_block_reward(db))>>,
                         now, now)
         r == add_block(db, b)
     IN  /\ db' = r.db
         /\ call' = [fn |-> "mine", ok |-> r.ok, block |-> b]
  /\ nextTx' = nextTx + 1
  /\ UNCHANGED <<txn, wallet, mining, mining_address, th, req, rpcResult,
                 observed, now, offers, syncVars, minerVars>>

\* handle_request, method sendfrom, run with no other writer: the balance
\* check, create_transaction, mine_new_block([tx]), add_block
sendfrom(d, from, to, amount, txid) ==
  IF get_address_balance(d, from) < amount + TxFee
    THEN [ok |-> FALSE, tx |-> <<>>, db |-> d]
  ELSE LET tx == create_transaction(d, from, to, amount, txid) IN
       IF tx = <<>> THEN [ok |-> FALSE, tx |-> <<>>, db |-> d]
       ELSE LET r == add_block(d, MinedBlock(get_height(d), get_best_block_hash(d),
                                             get_difficulty(d), tx, now, now))
            IN  [ok |-> r.ok, tx |-> tx, db |-> r.db]

LedgerSend(from, to, amount) ==
  /\ get_height(db) <= MaxLedger
  /\ LET r == sendfrom(db, from, to, amount, nextTx)
     IN  /\ db' = r.db
         /\ nextTx' = IF r.tx = <<>> THEN nextTx ELSE nextTx + 1
         /\ call' = [fn |-> "sendfrom", from |-> from, to |-> to,
                     amount |-> amount, ok |-> r.ok, tx |-> r.tx, before |-> db]
  /\ UNCHANGED <<txn, wallet, mining, mining_address, th, req, rpcResult,
                 observed, now, offers, syncVars, minerVars>>

\* a caller hands add_block a block at the next height, on the best hash,
\* holding one transaction that names a stored UTXO (spent or not) as its
\* input and pays its address u.amount + x
LedgerOffer(u, x) ==
  /\ get_height(db) <= MaxLedger
  /\ LET b == MinedBlock(get_height(db), get_best_block_hash(db),
                         get_difficulty(db),
                         <<SpendTx(nextTx, u, u.amount + x)>>, now, now)
         r == add_block(db, b)
     IN  /\ db' = r.db
         /\ call' = [fn |-> "add_block", ok |-> r.ok, block |-> b]
  /\ nextTx' = nextTx + 1
  /\ UNCHANGED <<txn, wallet, mining, mining_address, th, req, rpcResult,
                 observed, now, offers, syncVars, minerVars>>

\* submitblock with a block a peer serves
LedgerSubmit(bd) ==
  /\ LET r == submit_external_block(db, bd)
     IN  /\ db' = r.db
         /\ call' = [fn |-> "submitblock", kind |-> r.kind, height |-> bd.height]
  /\ UNCHANGED <<txn, wallet, mining, mining_address, th, req, rpcResult,
                 observed, nextTx, now, offers, syncVars, minerVars>>

\* add_block handed a block that was mined for a height h that is stored by
\* now (what mine_loop and the send handlers do when another thread stored
\* its block first)
LedgerStale(h) ==
  /\ get_height(db) <= MaxLedger
  /\ LET b == MinedBlock(h, get_best_block_hash(db), get_difficulty(db),
                         <<Coinbase(nextTx, AddrNames[1], Reward(h))>>, now, now)
         r == add_block(db, b)
     IN  /\ db' = r.db
         /\ call' = [fn |-> "add_block", ok |-> r.ok, block |-> b]
  /\ nextTx' = nextTx
  /\ UNCHANGED <<txn, wallet, mining, mining_address, th, req, rpcResult,
                 observed, now, offers, syncVars, minerVars>>

NextLedger ==
  \/ \E a \in {AddrNames[1]} : LedgerMine(a)
  \/ \E from \in LedgerAddrs, to \in LedgerAddrs, x \in LedgerAmounts :
       LedgerSend(from, to, x)
  \/ \E u \in db.utxos, x \in {0 - TxFee, 1} : LedgerOffer(u, x)
  \/ \E h \in {b.height : b \in db.blocks} : LedgerStale(h)
  \/ \E bd \in PeerBlocks : LedgerSubmit(bd)

SpecLedger == Init /\ [][NextLedger]_vars

StoredHeights == {b.height : b \in db.blocks}

BlockAt(h) == CHOOSE b \in db.blocks : b.height = h

IsCoinbase(tx) == Len(tx.inputs) = 0

Refs(inp, u) == inp.txid = u.txid /\ inp.output_index = u.output_index

\* C1: every stored block of height h > 0 has prev_hash equal to the hash of
\* the stored block at height h-1, and the block at height 0 has the 64-zero
\* prev_hash (a block that does not link is never stored).
C1_PrevHashLinked ==
  \A b \in db.blocks :
    IF b.height = 0 THEN b.prev_hash = Zero64
    ELSE \E p \in db.blocks : p.height = b.height - 1 /\ b.prev_hash = p.hash

\* C2: the heights present in the block store are exactly 0 .. Height()-1:
\* a block offered at a height beyond the next free one is not stored.
C2_HeightsContiguous == StoredHeights = 0..(get_height(db) - 1)

\* C3: every stored block (stated for the blocks mine_new_block builds) has a
\* hash that is the digest recomputed from its own header fields and that
\* meets the leading-zero target of its stated difficulty.
C3_StoredBlocksProveWork ==
  \A b \in db.blocks :
    b.height > 0 =>
      /\ b.hash = BlockHash(b.height, b.prev_hash, b.merkle_root, b.timestamp, b.nonce)
      /\ MeetsTarget(b.hash, b.difficulty)

\* C4: no UTXO is consumed by more than one stored transaction (a block that
\* spends a spent UTXO, or spends one UTXO twice, is rejected).
C4_NoDoubleSpend ==
  \A u \in db.utxos :
    Cardinality({r \in db.transactions :
                   \E k \in 1..Len(r.inputs) : Refs(r.inputs[k], u)}) <= 1

\* the amount the UTXO store records for an input reference (0 if no such row)
StoredAmount(inp) ==
  SumSet({u \in db.utxos : Refs(inp, u)})

RECURSIVE StoredInputTotal(_)
StoredInputTotal(inputs) ==
  IF inputs = <<>> THEN 0
  ELSE StoredAmount(Head(inputs)) + StoredInputTotal(Tail(inputs))

\* C5: every stored non-coinbase transaction has sum(outputs) + fee <= the sum
\* of the amounts the UTXO store records for the UTXOs it references.
C5_OutputsCoveredByInputs ==
  \A r \in db.transactions :
    Len(r.inputs) > 0 =>
      SumAmounts(r.outputs) + r.fee <= StoredInputTotal(r.inputs)

\* C6: every stored block contains exactly one coinbase transaction, with a
\* single output whose amount is the reward of the block's height.
C6_ExactlyOneCoinbase ==
  \A b \in db.blocks :
    LET cbs == {i \in 1..Len(b.transactions) : IsCoinbase(b.transactions[i])}
    IN  /\ Cardinality(cbs) = 1
        /\ \A i \in cbs :
             /\ Len(b.transactions[i].outputs) = 1
             /\ b.transactions[i].outputs[1].amount = Reward(b.height)

\* the spent marker block b leaves on a utxo that exists before transaction
\* number `from` of b runs: that of the last later transaction referencing it
MarkedBy(b, u, from) ==
  LET S == {i \in from..Len(b.transactions) :
              \E k \in 1..Len(b.transactions[i].inputs) :
                Refs(b.transactions[i].inputs[k], u)}
  IN  IF S = {} THEN u.spent_txid
      ELSE b.transactions[CHOOSE i \in S : \A j \in S : j <= i].txid

\* the database with block b applied as a whole: its block row, all its
\* transaction rows, all its spent markers and all its new utxos
FullyApplied(d, b) ==
  [blocks |-> d.blocks \cup {b},
   transactions |-> d.transactions
      \cup {TxRow(b.transactions[i], b.height) : i \in 1..Len(b.transactions)},
   utxos |-> {[u EXCEPT !.spent_txid = MarkedBy(b, u, 1)] : u \in d.utxos}
      \cup UNION {{[UtxoRow(b.transactions[i], k) EXCEPT
                      !.spent_txid = MarkedBy(b, UtxoRow(b.transactions[i], k), i + 1)] :
                     k \in 1..Len(b.transactions[i].outputs)} :
                   i \in 1..Len(b.transactions)}]

\* C7: add_block is all-or-nothing: while it runs the committed tables stay
\* as they were, and when it returns they are either exactly as before the
\* call or hold the whole block (block row, every transaction row, every
\* spent marker, every new utxo); submitblock leaves them as before when it
\* reports a failure.
C7_AllOrNothing ==
  [][/\ txn # <<>> => db = txn[1].base
     /\ (txn # <<>> /\ txn' = <<>>) =>
          \/ db' = txn[1].base /\ th'[txn[1].owner].ok = "false"
          \/ db' = FullyApplied(txn[1].base, txn[1].block)
               /\ th'[txn[1].owner].ok = "true"
     /\ \A bd \in PeerBlocks :
          (RpcSubmitBlock(bd) /\ rpcResult'.kind # "success") => db' = db]_vars

\* C7 witness: add_block has returned False for a block whose block row and
\* first transaction went in and whose second transaction hit an existing txid
C7_Witness ==
  /\ txn = <<>>
  /\ th["client"].pc = "ready"
  /\ th["client"].ok = "false"
  /\ th["client"].block # <<>>
  /\ LET b == th["client"].block[1]
     IN  /\ Len(b.transactions) = 2
         /\ b.height \notin StoredHeights
         /\ \A r \in db.blocks : r.hash # b.hash
         /\ \A r \in db.transactions : r.txid # b.transactions[1].txid
         /\ \E r \in db.transactions : r.txid = b.transactions[2].txid

\* what Height(), BestHash(), the UTXOs and the balances are read from
LedgerView(d) == <<get_height(d), get_best_block_hash(d), d.utxos>>

\* C8: applying a block whose height is already stored (through add_block or
\* through submitblock) leaves Height(), BestHash(), every UTXO and hence
\* every balance unchanged.
C8_ReapplyIsNoOp ==
  [][/\ (/\ txn # <<>>
         /\ txn' = <<>>
         /\ txn[1].block.height \in {b.height : b \in txn[1].base.blocks}) =>
          LedgerView(db') = LedgerView(txn[1].base)
     /\ \A bd \in PeerBlocks :
          (bd.height \in StoredHeights /\ RpcSubmitBlock(bd)) =>
            LedgerView(db') = LedgerView(db)]_vars

\* C8 witness: a stored block was offered to add_block again and add_block
\* has returned, and submitblock has answered for a stored height
C8_Witness ==
  /\ txn = <<>>
  /\ th["client"].pc = "ready"
  /\ th["client"].block # <<>>
  /\ th["client"].ok = "false"
  /\ th["client"].block[1] \in db.blocks
  /\ rpcResult.kind = "exists"

\* C9: a balance read returns the sum of the address's unspent committed
\* UTXOs, and a read that falls inside an add_block returns the balance of
\* the state before that add_block began, never one with an input marked
\* spent and the new output missing (or the reverse).
C9_BalanceReadAtomic ==
  [][observed' # observed =>
       LET o == observed'[1]
           before == IF txn = <<>> THEN db ELSE txn[1].base
       IN  o.value = SumSet({u \in before.utxos :
                               u.address = o.address /\ u.spent_txid = NULL})]_vars

\* C9 witness: a balance read of an address fell between the statement that
\* marked its UTXO spent and the one that creates its new UTXO, and that
\* add_block is still in flight
C9_Witness ==
  /\ observed # <<>>
  /\ observed[1].mid
  /\ txn # <<>>
  /\ \E u \in txn[1].base.utxos :
       /\ u.address = observed[1].address
       /\ u.spent_txid = NULL
       /\ \E w \in txn[1].work.utxos : Refs(w, u) /\ w.spent_txid # NULL
  /\ \E i \in 1..Len(txn[1].stmts) : txn[1].stmts[i].op = "utxo"
  /\ observed[1].value = get_address_balance(txn[1].base, observed[1].address)

\* C10: every coinbase of a stored block pays exactly the reward of the
\* block's height, block_reward / 2^(height div halving_interval).
C10_CoinbasePaysSchedule ==
  \A b \in db.blocks :
    \A i \in 1..Len(b.transactions) :
      IsCoinbase(b.transactions[i]) =>
        b.transactions[i].outputs[1].amount
          = block_reward \div Pow2(b.height \div halving_interval)
\* C11: a block delivered through submitblock is accepted exactly when
\* add_block would accept it in the same store state, and leaves the block,
\* transaction and UTXO tables as add_block would leave them.
C11_OneValidationPath ==
  [][\A b \in PeerMined :
       RpcSubmitBlock(ToDict(b)) =>
         /\ (rpcResult'.kind = "success") = add_block(db, b).ok
         /\ db' = add_block(db, b).db]_vars

\* C12: a block at the next free height, on the best hash, whose hash is the
\* digest of its header and meets the target, is accepted when offered
\* through submitblock: Height() grows by one and BestHash() is its hash.
C12_SubmitExtendsChain ==
  [][\A b \in PeerMined :
       (/\ b.height = get_height(db)
        /\ b.prev_hash = get_best_block_hash(db)
        /\ b.hash = BlockHash(b.height, b.prev_hash, b.merkle_root, b.timestamp, b.nonce)
        /\ MeetsTarget(b.hash, b.difficulty)
        /\ RpcSubmitBlock(ToDict(b))) =>
         /\ get_height(db') = get_height(db) + 1
         /\ get_best_block_hash(db') = b.hash]_vars

\* C17: a read that starts while an add_block has written rows it has not
\* yet committed or rolled back does not complete before that write ends.
C17_ReadsWaitForWrites ==
  [][observed' # observed =>
       ~(txn # <<>> /\ txn[1].work # txn[1].base)]_vars
\* the local store holds the whole chain of peer p
HasChainOf(p) == \A h \in 0..(peers[p] - 1) : PeerChain[h] \in db.blocks

\* the peers a running synchroniser polls
Polled ==
  {gsync.active_peers[k] : k \in 1..Len(gsync.active_peers)}
    \cup (IF nsync # NIdle THEN PeerSet ELSE {})

\* a polled peer reports more blocks than the local store holds
Behind == \E p \in Polled : peers[p] > get_height(db)

\* the local store holds the chain of every polled peer
CaughtUp == \A p \in Polled : peers[p] <= get_height(db) /\ HasChainOf(p)

\* C13: whenever a polled peer reports more blocks than the local store
\* holds, the local store eventually holds the chain of every polled peer
\* (its height has reached theirs and its blocks equal theirs).
C13_SyncReachesPeer == Behind ~> CaughtUp

\* submissions in strictly ascending height order, none after a rejected one
AscendingUntilRejected(subs) ==
  \A k \in 1..(Len(subs) - 1) : subs[k].ok /\ subs[k].height < subs[k + 1].height

\* C14: within one pass the fetched blocks are submitted in strictly
\* ascending height order and no block is submitted after a rejected one.
C14_AscendingStopAtRejection ==
  /\ AscendingUntilRejected(gsync.pass.subs)
  /\ AscendingUntilRejected(nsync.pass.subs)

\* C15: in one pass a synchroniser requests blocks from at most one peer.
C15_OnePeerPerPass ==
  /\ Cardinality(gsync.pass.asked) <= 1
  /\ Cardinality(nsync.pass.asked) <= 1

\* C15 witness: a pass has ended in which every peer reported more blocks
\* than the local height, blocks were requested, and the transfer failed
C15_Witness ==
  /\ nsync.pc = "sleep"
  /\ nsync.pass.failed
  /\ nsync.pass.asked # {}
  /\ \A p \in PeerSet : peers[p] > nsync.local_height
  /\ nsync.peer = PeerNames[1]

\* the blocks of a pass are the missing ones, from the first missing height
\* on, in order, and at most SyncBatch of them
MissingRange(pass) ==
  /\ Len(pass.fetched) <= SyncBatch
  /\ \A k \in 1..Len(pass.fetched) : pass.fetched[k] = pass.missing + k - 1

\* C16: the blocks a pass fetches are exactly blocks the local chain lacks,
\* starting with the first missing one, and never more than the batch bound.
C16_FetchesMissingRange ==
  /\ MissingRange(gsync.pass)
  /\ MissingRange(nsync.pass)

\* C18: once the run flag is cleared while the miner is at its proof-of-work
\* search, the search is abandoned: it does not go on to a sealed candidate.
C18_StopAbandonsSearch ==
  [][(~mining /\ th["miner"].pc = "seal") => th'["miner"].pc # "add"]_vars

\* C20: a candidate the miner hands to add_block has not come back from
\* add_block before, and its height, previous hash and reward were read
\* from the store as it was at or after the last return (rejection or
\* acceptance): the height is at least the block count then, the previous
\* hash is that of a stored block at least as high as the top then, and the
\* reward is the scheduled one for a height not below the count then.
C20_NoStaleRetry ==
  th["miner"].pc \in {"add", "txn"} =>
    LET b == th["miner"].block[1] IN
      /\ b.transactions[1].txid \notin cand.txids
      /\ b.height >= cand.count
      /\ \E s \in db.blocks : s.hash = b.prev_hash /\ s.height >= cand.top
      /\ \E h \in cand.count..MaxBlocks :
           b.transactions[1].outputs[1].amount = Reward(h)

\* C20 witness: add_block rejected the miner's candidate because another
\* block had taken its height, and the miner holds its next candidate, built
\* at the new height
C20_Witness ==
  /\ th["miner"].pc = "add"
  /\ cand.ok = "false"
  /\ cand.count = 2
  /\ th["miner"].block[1].height = 2

\* C19: at most one mine_loop thread is alive at any time, and whenever the
\* mining flag is set and no call of start_mining or stop_mining is in
\* progress, a mine_loop thread is alive.
C19_StartStopIdempotent ==
  /\ Cardinality(ctl.loops) <= 1
  /\ (mining /\ \A c \in Callers : ctl.pc[c] = "out") => ctl.loops # {}

\* C21: while the run flag is set the mine_loop thread is alive, and a step
\* in which an iteration fails (a store call raises, or add_block rejects
\* the candidate) leaves the flag as it was and takes the thread back to the
\* head of the loop.
C21_ErrorsKeepLoop ==
  [][/\ mining' => th'["miner"].pc # "idle"
     /\ (faults' # faults \/ (MinerReturn /\ th'["miner"].ok = "false")) =>
          (mining' = mining /\ th'["miner"].pc = "loop")]_vars

\* C21 witness: a store call has failed and a candidate has been rejected,
\* the flag is still set and the miner is in a later iteration
C21_Witness ==
  /\ faults > 0
  /\ cand.ok = "false"
  /\ mining
  /\ th["miner"].pc = "prev"

\* the retarget of call has returned
Retargeted == call.fn = "retarget" /\ call.out # <<>> /\ ~call.out[1].raised

\* C23: at a retarget, when every block of the window is exactly one target
\* block time after its predecessor the new difficulty equals the old one;
\* when the window took 4 times the target time or longer it is a quarter
\* of the old one (to the integer); when it took a quarter of the target
\* time or less it is 4 times the old one.
C23_RetargetCases ==
  Retargeted =>
    LET taken  == WindowElapsed(call.spacing)
        target == RetargetInterval * block_time_target
        new    == call.out[1].value
    IN  /\ call.spacing = block_time_target => new = call.cur
        /\ taken >= 4 * target => (4 * new <= call.cur /\ call.cur < 4 * new + 4)
        /\ (0 < taken /\ 4 * taken <= target) => new = 4 * call.cur

\* C24: the retarget returns, and returns a difficulty of at least 1, for
\* every current difficulty of at least 1 and every window, an elapsed time
\* of zero or below included.
C24_RetargetTotal ==
  (call.fn = "retarget" /\ call.out # <<>> /\ call.cur >= 1) =>
    (~call.out[1].raised /\ call.out[1].value >= 1)

\* C22: a stored block whose height is not a positive multiple of the
\* retarget interval carries the difficulty of its predecessor, and a block
\* at a positive multiple carries the retarget computed from its
\* predecessor's difficulty and the time the preceding interval took; the
\* difficulty the node reports is that of the highest block off a boundary.
C22_DifficultyBetweenRetargets ==
  /\ \A b \in db.blocks :
       b.height > 0 =>
         /\ (b.height - 1) \in StoredHeights
         /\ IF b.height % RetargetInterval # 0
              THEN b.difficulty = BlockAt(b.height - 1).difficulty
              ELSE /\ (b.height - RetargetInterval) \in StoredHeights
                   /\ b.difficulty =
                        next_difficulty(
                          BlockAt(b.height - 1).difficulty,
                          BlockAt(b.height - 1).timestamp
                            - BlockAt(b.height - RetargetInterval).timestamp).value
  /\ (get_height(db) % RetargetInterval # 0) =>
        get_difficulty(db) = TopBlock(db).difficulty

\* C22 witness: a retarget has changed the difficulty and a block has been
\* mined after the boundary block
C22_Witness ==
  \E b \in db.blocks :
    /\ b.height = RetargetInterval + 1
    /\ b.difficulty # initial_difficulty

\* the unspent rows of an address as get_spendable_utxos returns them
Entries(address) ==
  [i \in 1..Cardinality(UnspentOf(db, address)) |->
     LET u == OrderDesc(UnspentOf(db, address))[i]
     IN  [txid |-> u.txid, output_index |-> u.output_index,
          address |-> u.address, amount |-> u.amount]]

\* out is the shortest prefix of rows, of at least least entries, whose
\* amounts sum to target or more
ShortestPrefix(out, rows, target, least) ==
  /\ Len(out) <= Len(rows)
  /\ out = SubSeq(rows, 1, Len(out))
  /\ Len(out) >= least
  /\ SumAmounts(out) >= target
  /\ \A k \in least..(Len(out) - 1) : SumAmounts(SubSeq(rows, 1, k)) < target

WellBuilt(tx) ==
  LET rem == SumAmounts(tx.inputs) - call.amount - TxFee IN
  /\ \A i \in 1..Len(tx.inputs) :
       \E u \in UnspentOf(db, call.from) :
         /\ Refs(tx.inputs[i], u)
         /\ tx.inputs[i].amount = u.amount
  /\ tx.outputs[1] = [address |-> call.to, amount |-> call.amount]
  /\ tx.fee = TxFee
  /\ IF rem >= TxFee
       THEN /\ Len(tx.outputs) = 2
            /\ tx.outputs[2] = [address |-> call.from, amount |-> rem]
            /\ SumAmounts(tx.outputs) + tx.fee = SumAmounts(tx.inputs)
       ELSE /\ Len(tx.outputs) = 1
            /\ SumAmounts(tx.outputs) + tx.fee = SumAmounts(tx.inputs) - rem

C27_BadRequestsRejected ==
  [][(call' # call /\ call'.fn = "handle_request") =>
       /\ call'.out.kind = "error"
       /\ call'.out.message = "Unknown method" <=> call'.method \notin Methods
       /\ UNCHANGED <<db, wallet, mining, mining_address>>]_vars

\* C28: a sendtoaddress request that found a wallet address holding the
\* amount and the fee ends with the txid of a transaction of the ledger that
\* spends from that wallet address, and a request that found none ends with
\* an error.
C28_SendFromFundedAddress ==
  [][/\ (req.method = "sendtoaddress" /\ req' = NoReq) =>
          /\ rpcResult'.kind = "txid"
          /\ \E tx \in db'.transactions :
               /\ tx.txid = rpcResult'.txid
               /\ \A i \in 1..Len(tx.inputs) : tx.inputs[i].address = req.from
          /\ \E i \in 1..Len(wallet) : wallet[i] = req.from
     /\ (req'.method = "sendtoaddress" /\ req = NoReq) =>
          get_address_balance(db, req'.from) >= req'.amount + TxFee]_vars

\* C29: the history lists every stored transaction with one of the asked
\* addresses among its inputs or its outputs, as `send` when they are among
\* the inputs only, `receive` when among the outputs only, `self` when
\* among both, and lists nothing else.
C29_HistoryComplete ==
  call.fn = "history" =>
    /\ call.out.kind = "result"
    /\ \A tx \in db.transactions :
         LET ins  == InputAddrs(tx) \cap call.addresses # {}
             outs == OutputAddrs(tx) \cap call.addresses # {}
         IN  IF ins \/ outs
               THEN [txid |-> tx.txid,
                     category |-> IF ins /\ outs THEN "self"
                                  ELSE IF ins THEN "send" ELSE "receive"]
                      \in call.out.rows
               ELSE \A r \in call.out.rows : r.txid # tx.txid

\* a store whose only block is a genesis block: height 0, prev_hash of 64
\* zeros, one transaction, which has no inputs
GenesisOnly(d) ==
  /\ get_height(d) = 1
  /\ \A b \in d.blocks :
       /\ b.height = 0
       /\ b.prev_hash = Zero64
       /\ Len(b.transactions) = 1
       /\ IsCoinbase(b.transactions[1])

\* C30: the genesis block applied to an empty store is accepted and leaves a
\* store of height 1; a genesis block applied to a store that has one is
\* rejected and leaves the store as it was; the initialisation of a node on
\* a store with blocks leaves the store as it was; no store holds two
\* blocks of height 0.
C30_GenesisOnce ==
  /\ (call.fn \in {"create_genesis_block", "add_block", "init"}) =>
       IF call.before = EmptyDb
         THEN call.ok /\ GenesisOnly(db)
         ELSE db = call.before /\ (call.fn # "init" => ~call.ok)
  /\ Cardinality({b \in db.blocks : b.height = 0}) <= 1

\* C30 witness: a second genesis block was offered to a store that had
\* grown, and a node was started on such a store
C30_Witness ==
  /\ call.fn = "create_genesis_block"
  /\ ~call.ok
  /\ get_height(db) >= 3

\* C31: offering a block at a height that is already stored is answered as a
\* success: add_block returns True and submitblock answers success.
C31_ResubmitIsSuccess ==
  [][/\ (/\ txn # <<>>
         /\ txn' = <<>>
         /\ txn[1].block.height \in {b.height : b \in txn[1].base.blocks}) =>
          th'[txn[1].owner].ok = "true"
     /\ \A bd \in PeerBlocks :
          (bd.height \in StoredHeights /\ RpcSubmitBlock(bd)) =>
            rpcResult'.kind = "success"]_vars

\* C32: UTXO rows only grow: a step never deletes a UTXO, never changes its
\* address or amount, and never clears or replaces a spent marker that is set.
C32_UtxosMonotone ==
  [][\A u \in db.utxos :
       \E v \in db'.utxos :
         /\ Refs(v, u)
         /\ v.address = u.address
         /\ v.amount = u.amount
         /\ u.spent_txid # NULL => v.spent_txid = u.spent_txid]_vars

\* C33: every stored block, the genesis block included, has a merkle_root
\* that is the digest of its transactions' txids joined in block order.
C33_MerkleRootOfTxids ==
  \A b \in db.blocks : b.merkle_root = MerkleRoot(b.transactions)

\* C34: the ledger is append-only: a block that is stored stays stored, with
\* its hash, prev_hash and transactions, and Height() never decreases.
C34_AppendOnly ==
  [][/\ db.blocks \subseteq db'.blocks
     /\ get_height(db') >= get_height(db)]_vars

\* C34 witness: add_block was handed a block for a height that is stored and
\* has refused it, on a store that holds blocks added by the miner or by send
C34_Witness ==
  /\ call.fn = "add_block"
  /\ ~call.ok
  /\ call.block.height \in StoredHeights
  /\ call.block \notin db.blocks
  /\ get_height(db) >= 2

\* the change create_transaction dropped from tx: what the inputs hold beyond
\* the amount sent and the fee, when tx carries no change output
DiscardedDust(tx) ==
  IF Len(tx.outputs) = 1
    THEN SumAmounts(tx.inputs) - tx.outputs[1].amount - tx.fee
  ELSE 0

\* C35: when sendfrom returns a txid the transaction is already stored in a
\* block, Height() is one more than before the call, the sender's balance is
\* lower by amount + fee + discarded dust and the receiver's higher by
\* amount (from = to: lower by fee + dust), the dust being less than the fee.
C35_SendAppliedAtOnce ==
  (call.fn = "sendfrom" /\ call.ok) =>
    LET tx == call.tx[1]
        was == call.before
        dust == DiscardedDust(tx)
    IN  /\ \E b \in db.blocks \ was.blocks :
             /\ b.transactions = <<tx>>
             /\ TxRow(tx, b.height) \in db.transactions
        /\ get_height(db) = get_height(was) + 1
        /\ 0 <= dust /\ dust < TxFee
        /\ IF call.from # call.to
             THEN /\ get_address_balance(db, call.from)
                       = get_address_balance(was, call.from) - call.amount - TxFee - dust
                  /\ get_address_balance(db, call.to)
                       = get_address_balance(was, call.to) + call.amount
             ELSE get_address_balance(db, call.from)
                    = get_address_balance(was, call.from) - TxFee - dust

\* C35 witness: a send to another address has returned a txid and its
\* transaction dropped a remainder of more than nothing
C35_Witness ==
  /\ call.fn = "sendfrom"
  /\ call.ok
  /\ call.from # call.to
  /\ call.amount > 0
  /\ DiscardedDust(call.tx[1]) > 0
  /\ get_address_balance(db, call.to) = call.amount

\* C36: a candidate built by mine_new_block that add_block accepts at height
\* h > 0 carries as prev_hash the hash of the stored block at height h-1,
\* whatever the miner loop and the send requests do in between.
C36_CandidateSnapshot ==
  [][(/\ txn # <<>>
      /\ txn' = <<>>
      /\ th'[txn[1].owner].ok = "true"
      /\ txn[1].block.height > 0) =>
       \E p \in db'.blocks :
         /\ p.height = txn[1].block.height - 1
         /\ p.hash = txn[1].block.prev_hash]_vars

\* C37: every stored UTXO has an amount above zero, no address has a balance
\* below zero, and a send request with an amount of zero or less produces no
\* transaction.
C37_AmountsPositive ==
  /\ \A u \in db.utxos : u.amount > 0
  /\ \A u \in db.utxos : get_address_balance(db, u.address) >= 0
  /\ (call.fn = "sendfrom" /\ call.amount <= 0) => call.tx = <<>>

\* the sum of the unspent UTXO amounts
Supply(d) == SumSet({u \in d.utxos : u.spent_txid = NULL})

RECURSIVE Minted(_)
\* the sum of the outputs of the coinbase transactions among rows
Minted(rows) ==
  IF rows = {} THEN 0
  ELSE LET r == CHOOSE x \in rows : TRUE
       IN  (IF IsCoinbase(r) THEN SumAmounts(r.outputs) ELSE 0)
             + Minted(rows \ {r})

\* the remainder a stored transaction left out as dust: at least nothing and
\* less than the fee
Dust(tx) ==
  IF 0 <= DiscardedDust(tx) /\ DiscardedDust(tx) < TxFee
    THEN DiscardedDust(tx)
  ELSE 0

RECURSIVE Burned(_)
\* the fees and the dust of the transactions with inputs among rows
Burned(rows) ==
  IF rows = {} THEN 0
  ELSE LET r == CHOOSE x \in rows : TRUE
       IN  (IF IsCoinbase(r) THEN 0 ELSE r.fee + Dust(r))
             + Burned(rows \ {r})

\* C38: the unspent supply is what the coinbases of the stored blocks paid,
\* less the fees and the discarded dust of the stored transactions that have
\* inputs: nothing but a coinbase adds to it.
C38_SupplyConserved ==
  Supply(db) = Minted(db.transactions) - Burned(db.transactions)

\* the step in which the send handler answers with an error
SendFails ==
  /\ th'["rpc"].pc = "ready"
  /\ rpcResult'.kind = "error"
  /\ \/ th["rpc"].pc \in {"create", "reply"}
     \/ th["rpc"].pc = "ready" /\ req' = req /\ rpcResult' # rpcResult

\* C39: a send that answers with an error has changed nothing: the add_block
\* that refused its block left the tables as they were when it began, no
\* other step of the request wrote to them, and every input the request had
\* selected is still unspent when the error is returned.
C39_FailedSendChangesNothing ==
  [][/\ (/\ txn # <<>>
         /\ txn[1].owner = "rpc"
         /\ txn' = <<>>
         /\ th'["rpc"].ok = "false") =>
          db' = txn[1].base /\ db' = db
     /\ (th'["rpc"] # th["rpc"] /\ (txn = <<>> \/ txn[1].owner # "rpc")) =>
          db' = db
     /\ SendFails =>
          /\ db' = db
          /\ th["rpc"].txs # <<>> =>
               \A k \in 1..Len(th["rpc"].txs[1].inputs) :
                 \E u \in db'.utxos :
                   /\ Refs(th["rpc"].txs[1].inputs[k], u)
                   /\ u.spent_txid = NULL]_vars

\* C39 witness: add_block has refused the block of a send because the
\* miner's block took its height first, and the inputs the send had selected
\* are unspent
C39_Witness ==
  /\ th["rpc"].pc = "reply"
  /\ th["rpc"].ok = "false"
  /\ th["rpc"].block[1].height \in StoredHeights
  /\ \E b \in db.blocks :
       /\ b.height = th["rpc"].block[1].height
       /\ IsCoinbase(b.transactions[1])
  /\ \A k \in 1..Len(th["rpc"].txs[1].inputs) :
       \E u \in db.utxos :
         Refs(th["rpc"].txs[1].inputs[k], u) /\ u.spent_txid = NULL

====
